---- MODULE Spec2Model ----
(***************************************************************************)
(* A model of the MapManipulator camera controller                         *)
(* (src/src/CsApp/MapManipulator.cpp): the binding table of its Settings,  *)
(* the event handlers, the single-slot Task and the pose.                  *)
(*                                                                         *)
(* Numbers.  The code computes in IEEE doubles.  The model keeps the       *)
(* finite precision: a double is a binary fixed-point number with FracBits *)
(* fractional bits (the integer n stands for n / 2^FracBits), every        *)
(* product and every decimal literal is rounded to the nearest             *)
(* representable value (ties to even), sums and differences are exact.     *)
(* Angles are kept in tenths of a degree.  Time points are integer         *)
(* microseconds, exact like the code's std::chrono time points.            *)
(***************************************************************************)
EXTENDS Integers, Sequences, FiniteSets, TLC

VARIABLES
    settings,           \* *_settings: the current Settings object
    state,              \* _state: center, localRotation, distance
    task,               \* _task: type, delta, duration_s, time_last_service
    keyPress,           \* _keyPress (optional)
    buttonPress,        \* _buttonPress (optional)
    buttonRelease,      \* _buttonRelease (optional)
    currentMove,        \* _currentMove (optional)
    previousMove,       \* _previousMove (optional)
    continuous,         \* _continuous
    continuousDelta,    \* _continuousDelta
    continuousAction,   \* _continuousAction
    lastContinuousTime, \* _last_continuous_action_time
    lastAction,         \* _lastAction
    camera,             \* _camera's projection, _savedProjection, view matrix
    geocentric,         \* _geoServices->isGeocentric()
    setVP,              \* _setVP0, _setVP1, _setVPStartTime, _setVPDuration, _setVPArcHeight
    now,                \* the time stamp of the latest event delivered
    ev,                 \* the latest call: its kind, inputs and results
    hist,               \* bookkeeping of the motion calls since the last task registration
    ncalls,             \* how many calls the owner has made
    nevents             \* how many input events the host has delivered

vars == <<settings, state, task, keyPress, buttonPress, buttonRelease, currentMove,
          previousMove, continuous, continuousDelta, continuousAction,
          lastContinuousTime, lastAction, camera, geocentric, setVP, now, ev, hist,
          ncalls, nevents>>

-----------------------------------------------------------------------------
(* Bounds of the model *)

\* fractional bits of the fixed-point stand-in for a double
FracBits == 8
\* the latest time stamp (microseconds) an event may carry
MaxTime == 400000
\* how many bind / setter calls the owner makes on the Settings object
MaxCalls == 2

\* input events (frame ticks apart) in one behaviour
MaxEvents == 2

\* frames of viewpoint transitions in one behaviour
MaxFrames == 3

\* the events of one pointer gesture sequence
MaxGesture == 4

-----------------------------------------------------------------------------
(* Arithmetic *)

One == 2 ^ FracBits

Min(a, b) == IF a < b THEN a ELSE b

Max(a, b) == IF a > b THEN a ELSE b

Abs(a) == IF a < 0 THEN -a ELSE a

\* n / d rounded to the nearest integer, ties to even (d > 0)
RoundDiv(n, d) ==
    LET q == n \div d
        r == n % d
    IN  IF 2 * r < d THEN q
        ELSE IF 2 * r > d THEN q + 1
        ELSE IF q % 2 = 0 THEN q ELSE q + 1

\* the double nearest to the decimal literal n / d
Dec(n, d) == RoundDiv(n * One, d)

\* a * b in double arithmetic
FMul(a, b) == RoundDiv(a * b, One)

\* (double)nanoseconds * 0.000000001, for a duration of us microseconds
to_seconds(us) == RoundDiv(us * One, 1000000)

\* clamp(x, lo, hi)
clamp(x, lo, hi) == IF x < lo THEN lo ELSE IF x > hi THEN hi ELSE x

\* a / b in double arithmetic (b # 0)
FDiv(a, b) == IF b < 0 THEN RoundDiv((-a) * One, -b) ELSE RoundDiv(a * One, b)

\* equiv(a, b): equal within the tolerance, which lies below the resolution kept here
equiv(a, b) == a = b

\* DBL_MAX: the largest value a double holds
DBL_MAX == (2 ^ 12) * One

\* a product that overflows is clamped to the largest double
FMulSat(a, b) == clamp(FMul(a, b), -DBL_MAX, DBL_MAX)

None == [none |-> TRUE]

\* an optional that holds a number
Some(x) == [value |-> x]

-----------------------------------------------------------------------------
(* vsg key modifiers, keys and button masks, and the enums of the class *)

MODKEY_Shift == 1
MODKEY_CapsLock == 2
MODKEY_Control == 4
MODKEY_NumLock == 16

KEY_Space == 32
KEY_Left == 65361
KEY_Up == 65362
KEY_Right == 65363
KEY_Down == 65364
KEY_p == 112

MOUSE_LEFT_BUTTON == 256
MOUSE_MIDDLE_BUTTON == 512
MOUSE_RIGHT_BUTTON == 1024

DIR_NA == 0
DIR_LEFT == 1
DIR_RIGHT == 2
DIR_UP == 3
DIR_DOWN == 4

\* the event kinds of an InputSpec (enum EventType)
EVENT_MOUSE_CLICK == 1
EVENT_MOUSE_DOUBLE_CLICK == 2
EVENT_MOUSE_DRAG == 3
EVENT_KEY_DOWN == 4
EVENT_SCROLL == 5
EVENT_MULTI_DRAG == 6
EVENT_MULTI_PINCH == 7
EVENT_MULTI_TWIST == 8

EventTypes == {EVENT_MOUSE_CLICK, EVENT_MOUSE_DOUBLE_CLICK, EVENT_MOUSE_DRAG, EVENT_KEY_DOWN,
               EVENT_SCROLL, EVENT_MULTI_DRAG, EVENT_MULTI_PINCH, EVENT_MULTI_TWIST}

\* W & V == V for a single-bit V
HasBit(m, b) == (m \div b) % 2 = 1

\* m & ~b for a single-bit b
ClearBit(m, b) == IF HasBit(m, b) THEN m - b ELSE m

\* m | b for a single-bit b
SetBit(m, b) == IF HasBit(m, b) THEN m ELSE m + b

-----------------------------------------------------------------------------
(* Action *)

\* Action::init: the direction an action type implies
ActionDir(type) ==
    IF type \in {"ACTION_PAN_LEFT", "ACTION_ROTATE_LEFT"} THEN DIR_LEFT
    ELSE IF type \in {"ACTION_PAN_RIGHT", "ACTION_ROTATE_RIGHT"} THEN DIR_RIGHT
    ELSE IF type \in {"ACTION_PAN_UP", "ACTION_ROTATE_UP", "ACTION_ZOOM_IN"} THEN DIR_UP
    ELSE IF type \in {"ACTION_PAN_DOWN", "ACTION_ROTATE_DOWN", "ACTION_ZOOM_OUT"} THEN DIR_DOWN
    ELSE DIR_NA

\* Action::Action(type, options)
Action(type, options) == [type |-> type, dir |-> ActionDir(type), options |-> options]

NullAction == Action("ACTION_NULL", <<>>)

\* ActionOptions::add
Opt(option, value) == [option |-> option, value |-> value]

\* the first option of the list with the key, or the default
GetOption(action, option, defaultValue) ==
    LET hits == {i \in 1..Len(action.options) : action.options[i].option = option}
    IN  IF hits = {} THEN defaultValue
        ELSE action.options[CHOOSE i \in hits : \A j \in hits : i <= j].value

getBoolOption(action, option, defaultValue) == GetOption(action, option, defaultValue)

getDoubleOption(action, option, defaultValue) == GetOption(action, option, defaultValue)

-----------------------------------------------------------------------------
(* InputSpec and the binding table *)

InputSpec(event_type, input_mask, modkey_mask) ==
    [event_type |-> event_type, input_mask |-> input_mask, modkey_mask |-> modkey_mask]

\* InputSpec::operator<
SpecLess(a, b) ==
    IF a.event_type < b.event_type THEN TRUE
    ELSE IF a.event_type > b.event_type THEN FALSE
    ELSE IF a.input_mask < b.input_mask THEN TRUE
    ELSE IF a.input_mask > b.input_mask THEN FALSE
    ELSE a.modkey_mask < b.modkey_mask

\* InputSpec::operator==
SpecEq(a, b) ==
    /\ a.event_type = b.event_type
    /\ a.input_mask = b.input_mask
    /\ SetBit(a.modkey_mask, MODKEY_NumLock) = SetBit(b.modkey_mask, MODKEY_NumLock)

\* the keys of a std::map that are equivalent to spec under its ordering
MapFind(bindings, spec) ==
    {k \in DOMAIN bindings : ~SpecLess(k, spec) /\ ~SpecLess(spec, k)}

\* Settings::expandSpec: the fan-out is commented out, the input is always added
expandSpec(input) == <<input>>

\* std::map::insert in place of operator[]: an existing entry is kept
MapAssign_insertOnly(bindings, spec, action) ==
    IF MapFind(bindings, spec) # {} THEN bindings
    ELSE [k \in DOMAIN bindings \cup {spec} |-> IF k = spec THEN action ELSE bindings[k]]

\* _bindings[spec] = action
MapAssign(bindings, spec, action) ==
    LET found == MapFind(bindings, spec)
    IN  IF found = {} THEN [k \in DOMAIN bindings \cup {spec} |->
                               IF k = spec THEN action ELSE bindings[k]]
        ELSE [k \in DOMAIN bindings |-> IF k \in found THEN action ELSE bindings[k]]

RECURSIVE BindAll(_, _, _)
BindAll(bindings, specs, action) ==
    IF specs = <<>> THEN bindings
    ELSE BindAll(MapAssign(bindings, Head(specs), action), Tail(specs), action)

\* Settings::bind
bind(bindings, spec, action) == BindAll(bindings, expandSpec(spec), action)

bindMouse(b, actionType, button_mask, modkey_mask, options) ==
    bind(b, InputSpec(EVENT_MOUSE_DRAG, button_mask, modkey_mask), Action(actionType, options))

bindMouseClick(b, actionType, button_mask, modkey_mask, options) ==
    bind(b, InputSpec(EVENT_MOUSE_CLICK, button_mask, modkey_mask), Action(actionType, options))

bindMouseDoubleClick(b, actionType, button_mask, modkey_mask, options) ==
    bind(b, InputSpec(EVENT_MOUSE_DOUBLE_CLICK, button_mask, modkey_mask),
         Action(actionType, options))

bindKey(b, actionType, key, modkey_mask, options) ==
    bind(b, InputSpec(EVENT_KEY_DOWN, key, modkey_mask), Action(actionType, options))

bindScroll(b, actionType, scrolling_direction, modkey_mask, options) ==
    bind(b, InputSpec(EVENT_SCROLL, scrolling_direction, modkey_mask),
         Action(actionType, options))

bindPinch(b, actionType, options) ==
    bind(b, InputSpec(EVENT_MULTI_PINCH, 0, 0), Action(actionType, options))

bindTwist(b, actionType, options) ==
    bind(b, InputSpec(EVENT_MULTI_TWIST, 0, 0), Action(actionType, options))

bindMultiDrag(b, actionType, options) ==
    bind(b, InputSpec(EVENT_MULTI_DRAG, 0, 0), Action(actionType, options))

\* only Num Lock removed, Caps Lock forgotten
LookupMask_numLockOnly(modkey_mask) == ClearBit(modkey_mask, MODKEY_NumLock)

\* the modifier mask getAction looks up: Num Lock and Caps Lock removed
LookupMask(modkey_mask) == ClearBit(ClearBit(modkey_mask, MODKEY_NumLock), MODKEY_CapsLock)

\* Settings::getAction
getAction(bindings, event_type, input_mask, modkey_mask) ==
    LET spec == InputSpec(event_type, input_mask, LookupMask(modkey_mask))
        found == MapFind(bindings, spec)
    IN  IF found # {} THEN bindings[CHOOSE k \in found : TRUE] ELSE NullAction

-----------------------------------------------------------------------------
(* Settings *)

\* Settings::Settings(): the defaults, with an empty binding table
NewSettings ==
    [bindings |-> <<>>,
     single_axis_rotation |-> FALSE,
     mouse_sens |-> One,
     keyboard_sens |-> One,
     scroll_sens |-> One,
     min_pitch |-> -899,
     max_pitch |-> -10,
     min_distance |-> One,
     max_distance |-> DBL_MAX,
     zoomToMouse |-> TRUE]

\* the option lists configureDefaultSettings builds up
ZoomDragOptions == <<Opt("OPTION_CONTINUOUS", TRUE), Opt("OPTION_SCALE_Y", 5 * One)>>

RotateDragOptions ==
    ZoomDragOptions \o <<Opt("OPTION_SCALE_X", 9 * One), Opt("OPTION_SCALE_Y", 9 * One)>>

\* MapManipulator::configureDefaultSettings: the default bindings, in the order bound
DefaultBindings ==
    LET b1 == bindKey(<<>>, "ACTION_HOME", KEY_Space, 0, <<>>)
        b2 == bindMouse(b1, "ACTION_ZOOM", MOUSE_RIGHT_BUTTON, 0, ZoomDragOptions)
        b3 == bindMouse(b2, "ACTION_ZOOM", MOUSE_RIGHT_BUTTON, MODKEY_Control, ZoomDragOptions)
        b4 == bindMouse(b3, "ACTION_PAN", MOUSE_LEFT_BUTTON, 0, <<>>)
        b5 == bindMouse(b4, "ACTION_ROTATE", MOUSE_MIDDLE_BUTTON, 0, <<>>)
        b6 == bindMouse(b5, "ACTION_ROTATE", MOUSE_LEFT_BUTTON + MOUSE_RIGHT_BUTTON, 0, <<>>)
        b7 == bindMouse(b6, "ACTION_ROTATE", MOUSE_MIDDLE_BUTTON, MODKEY_Control,
                        RotateDragOptions)
        b8 == bindMouse(b7, "ACTION_ROTATE", MOUSE_LEFT_BUTTON, MODKEY_Control,
                        RotateDragOptions)
        b9 == bindScroll(b8, "ACTION_ZOOM_IN", DIR_UP, 0, <<>>)
        b10 == bindScroll(b9, "ACTION_ZOOM_OUT", DIR_DOWN, 0, <<>>)
        b11 == bindKey(b10, "ACTION_PAN_LEFT", KEY_Left, 0, <<>>)
        b12 == bindKey(b11, "ACTION_PAN_RIGHT", KEY_Right, 0, <<>>)
        b13 == bindKey(b12, "ACTION_PAN_UP", KEY_Up, 0, <<>>)
        b14 == bindKey(b13, "ACTION_PAN_DOWN", KEY_Down, 0, <<>>)
        b15 == bindMouseDoubleClick(b14, "ACTION_GOTO", MOUSE_LEFT_BUTTON, 0,
                                    <<Opt("OPTION_GOTO_RANGE_FACTOR", Dec(4, 10))>>)
        b16 == bindMouseDoubleClick(b15, "ACTION_GOTO", MOUSE_RIGHT_BUTTON, 0,
                                    <<Opt("OPTION_GOTO_RANGE_FACTOR", Dec(25, 10))>>)
        b17 == bindPinch(b16, "ACTION_ZOOM", <<>>)
        b18 == bindTwist(b17, "ACTION_ROTATE", <<>>)
        b19 == bindMultiDrag(b18, "ACTION_ROTATE", <<>>)
    IN  bindKey(b19, "ACTION_TOGGLE_PROJECTION", KEY_p, 0, <<>>)

DefaultSettings == [NewSettings EXCEPT !.bindings = DefaultBindings, !.zoomToMouse = FALSE]

\* Settings::setMinMaxPitch, in tenths of a degree
setMinMaxPitch(s, min_pitch, max_pitch) ==
    [s EXCEPT !.min_pitch = clamp(min_pitch, -899, 890),
              !.max_pitch = clamp(max_pitch, min_pitch, 890)]

\* Settings::setMinMaxDistance
setMinMaxDistance(s, min_distance, max_distance) ==
    [s EXCEPT !.min_distance = min_distance, !.max_distance = max_distance]

-----------------------------------------------------------------------------
(* The controller: its fields as one record, so that a handler is a function *)
(* from the fields before the call to the fields after it                    *)

\* the radius reinitializeHome reads from the geospatial service
HomeRadius == 4

\* reinitializeHome: _homePosition
HomePosition == <<HomeRadius * One, 0>>

\* reinitializeHome: _homeDistance = radius * 3.5
HomeDistance == FMul(HomeRadius * One, Dec(35, 10))

\* the identity quaternion: azimuth 0, looking straight down (asin(look.z) = -90 degrees)
IdentityRotation == [azim |-> 0, pitch |-> -900]

\* no viewpoint transition: _setVP0 and _setVP1 hold no value
NoTransition ==
    [VP0 |-> None, VP1 |-> None, StartTime |-> None, Duration |-> 0, ArcHeight |-> 0,
     geodetic |-> FALSE]

\* Task::Task()
NoTask == [type |-> "TASK_NONE", delta |-> <<0, 0>>, duration_s |-> 0, time_last_service |-> 0]

Fields ==
    [settings |-> settings, state |-> state, task |-> task, keyPress |-> keyPress,
     buttonPress |-> buttonPress, buttonRelease |-> buttonRelease,
     currentMove |-> currentMove, previousMove |-> previousMove,
     continuous |-> continuous, continuousDelta |-> continuousDelta,
     continuousAction |-> continuousAction, lastContinuousTime |-> lastContinuousTime,
     lastAction |-> lastAction, camera |-> camera, setVP |-> setVP, hist |-> hist,
     calls |-> <<>>, ret |-> FALSE, click |-> FALSE, registered |-> FALSE,
     progress |-> 0, interpolated |-> FALSE]

\* the state holds the fields
Holds(c) ==
    /\ settings = c.settings
    /\ state = c.state
    /\ task = c.task
    /\ keyPress = c.keyPress
    /\ buttonPress = c.buttonPress
    /\ buttonRelease = c.buttonRelease
    /\ currentMove = c.currentMove
    /\ previousMove = c.previousMove
    /\ continuous = c.continuous
    /\ continuousDelta = c.continuousDelta
    /\ continuousAction = c.continuousAction
    /\ lastContinuousTime = c.lastContinuousTime
    /\ lastAction = c.lastAction
    /\ camera = c.camera
    /\ setVP = c.setVP
    /\ hist = c.hist

\* the fields after a call become the state
Commit(c) ==
    /\ settings' = c.settings
    /\ state' = c.state
    /\ task' = c.task
    /\ keyPress' = c.keyPress
    /\ buttonPress' = c.buttonPress
    /\ buttonRelease' = c.buttonRelease
    /\ currentMove' = c.currentMove
    /\ previousMove' = c.previousMove
    /\ continuous' = c.continuous
    /\ continuousDelta' = c.continuousDelta
    /\ continuousAction' = c.continuousAction
    /\ lastContinuousTime' = c.lastContinuousTime
    /\ lastAction' = c.lastAction
    /\ camera' = c.camera
    /\ setVP' = c.setVP
    /\ hist' = c.hist
    /\ geocentric' = geocentric

\* a motion call made during the current event is noted, in order
Note(c, name, dx, dy) == [c EXCEPT !.calls = Append(@, <<name, dx, dy>>)]

-----------------------------------------------------------------------------
(* Pose and motion *)

\* MapManipulator::setCenter: the center and the rotation frame at the center
setCenter(c, worldPos) ==
    [c EXCEPT !.state.center = worldPos, !.state.centerRotation = [at |-> worldPos]]

\* MapManipulator::setDistance
setDistance(c, distance) ==
    [c EXCEPT !.state.distance =
        clamp(distance, c.settings.min_distance, c.settings.max_distance)]

\* Task::reset
TaskReset(t) == [t EXCEPT !.type = "TASK_NONE"]

\* Task::set
TaskSet(type, d, duration, time) ==
    [type |-> type, delta |-> d, duration_s |-> duration, time_last_service |-> time]

\* MapManipulator::clearEvents
clearEvents(c, clearKeyPress) ==
    [c EXCEPT !.continuous = FALSE,
              !.keyPress = IF clearKeyPress THEN None ELSE @,
              !.buttonPress = None,
              !.buttonRelease = None,
              !.task = TaskReset(@)]

\* a home() that stores the home distance as it is
home_unclamped(c) ==
    clearEvents(
        [setCenter([c EXCEPT !.state.localRotation = IdentityRotation], HomePosition)
            EXCEPT !.state.distance = HomeDistance],
        TRUE)

\* MapManipulator::home
home(c) ==
    clearEvents(
        setDistance(
            setCenter([c EXCEPT !.state.localRotation = IdentityRotation], HomePosition),
            HomeDistance),
        TRUE)

\* getEulerAngles(q, nullptr, &pitch): the pitch of a local rotation
DecodedPitch(q) == q.pitch

\* radians to tenths of a degree (pi = 355/113)
RadToDeci(x) == RoundDiv(x * 1800 * 113, 355 * One)

\* pi and 2 pi, in tenths of a degree
Pi == 1800
TwoPi == 2 * Pi

\* fmod(x, m): the remainder with the sign of x (m > 0)
fmod(x, m) == IF x >= 0 THEN x % m ELSE -((-x) % m)

\* normalizeAzimRad, on angles in tenths of a degree
normalizeAzimRad(input) ==
    LET a == IF Abs(input) > TwoPi THEN fmod(input, TwoPi) ELSE input
        b == IF a < -Pi THEN a + TwoPi ELSE a
    IN  IF b > Pi THEN b - TwoPi ELSE b

\* azimuth kept in [0, 3600)
WrapAzim(a) == a % 3600

\* a rotate that moves the pitch to the limit it would pass
rotateDeci_clamped(c, dx, dy) ==
    LET minp == Min(c.settings.min_pitch, -899)
        maxp == Max(c.settings.max_pitch, -1)
        oldPitch == DecodedPitch(c.state.localRotation)
    IN  [c EXCEPT !.state.localRotation =
            [azim |-> WrapAzim(@.azim - dx), pitch |-> clamp(oldPitch + dy, minp, maxp)]]

\* MapManipulator::rotate, dx and dy in tenths of a degree
rotateDeci(c, dx, dy) ==
    LET minp == Min(c.settings.min_pitch, -899)
        maxp == Max(c.settings.max_pitch, -1)
        oldPitch == DecodedPitch(c.state.localRotation)
        dy2 == IF dy + oldPitch > maxp \/ dy + oldPitch < minp THEN 0 ELSE dy
    IN  [c EXCEPT !.state.localRotation =
            [azim |-> WrapAzim(@.azim - dx), pitch |-> @.pitch + dy2]]

\* MapManipulator::rotate called with doubles (radians)
rotate(c, dx, dy) == rotateDeci(Note(c, "rotate", dx, dy), RadToDeci(dx), RadToDeci(dy))

\* MapManipulator::pan, in the view-space basis of azimuth 0 on a planar map
pan(c, dx, dy) ==
    LET c1 == Note(c, "pan", dx, dy)
        scale == FMul(-Dec(3, 10), c1.state.distance)
    IN  setCenter(c1, <<clamp(c1.state.center[1] + FMul(dx, scale), -DBL_MAX, DBL_MAX),
                        clamp(c1.state.center[2] + FMul(dy, scale), -DBL_MAX, DBL_MAX)>>)

\* the zoom step of an orthographic frustum
OrthoFactor == Dec(10625, 10000)

\* MapManipulator::zoom
zoom(c, dx, dy) ==
    LET c1 == Note(c, "zoom", dx, dy)
    IN  IF c1.camera.projectionMatrix.kind = "Orthographic"
        THEN LET e == c1.camera.projectionMatrix.extent
             IN  [c1 EXCEPT !.camera.projectionMatrix.extent =
                     FMul(e, IF dy > 0 THEN RoundDiv(One * One, OrthoFactor) ELSE OrthoFactor)]
        ELSE IF ~c1.settings.zoomToMouse
        THEN setDistance(c1, FMulSat(c1.state.distance, One + dy))
        ELSE c1

-----------------------------------------------------------------------------
(* Actions resolved from events *)

\* a handler's return value
Return(c, value) == [c EXCEPT !.ret = value]

\* MapManipulator::handleMovementAction
handleMovementAction(c, type, d) ==
    IF type = "ACTION_PAN" THEN pan(c, d[1], d[2])
    ELSE IF type = "ACTION_ROTATE"
    THEN LET d2 == IF c.continuous /\ c.settings.single_axis_rotation
                   THEN IF Abs(d[1]) > Abs(d[2]) THEN <<d[1], 0>> ELSE <<0, d[2]>>
                   ELSE d
         IN  rotate(c, d2[1], d2[2])
    ELSE IF type = "ACTION_ZOOM" THEN zoom(c, d[1], d[2])
    ELSE c

\* MapManipulator::applyOptionsToDeltas
applyOptionsToDeltas(action, d) ==
    LET x == FMul(d[1], getDoubleOption(action, "OPTION_SCALE_X", One))
        y == FMul(d[2], getDoubleOption(action, "OPTION_SCALE_Y", One))
    IN  IF getBoolOption(action, "OPTION_SINGLE_AXIS", FALSE) = TRUE
        THEN IF Abs(x) > Abs(y) THEN <<x, 0>> ELSE <<0, y>>
        ELSE <<x, y>>

\* what a registration notes: its arguments, the task it found active, the distance at
\* the time; the bookkeeping of the dispatched deltas starts afresh
Registration(c, type, d, duration, time) ==
    [reg |-> [type |-> type, rate |-> d, duration |-> duration, time |-> time],
     applied |-> <<0, 0>>, spent |-> 0, ticks |-> 0, small |-> TRUE, frames |-> TRUE,
     previous |-> IF c.task.type # "TASK_NONE" THEN c.task ELSE None,
     distance |-> c.state.distance]

\* a registration that adds the remaining duration of the active task to the new one
Register_accumulate(c, type, d, duration, time) ==
    [c EXCEPT !.task = TaskSet(type, d,
                               IF c.task.type # "TASK_NONE" THEN duration + c.task.duration_s
                               ELSE duration,
                               time),
              !.registered = TRUE,
              !.hist = Registration(c, type, d, duration, time)]

\* _task.set(type, d, duration, time) in handleAction
Register(c, type, d, duration, time) ==
    [c EXCEPT !.task = TaskSet(type, d, duration, time),
              !.registered = TRUE,
              !.hist = Registration(c, type, d, duration, time)]

\* a handleAction whose default branch registers a pan
handleAction_nullPans(c, action, d, time, duration) ==
    IF action.type = "ACTION_HOME" THEN Return(home(c), TRUE)
    ELSE IF action.type \in {"ACTION_ROTATE", "ACTION_ROTATE_LEFT", "ACTION_ROTATE_RIGHT",
                             "ACTION_ROTATE_UP", "ACTION_ROTATE_DOWN"}
    THEN Return(Register(c, "TASK_ROTATE", d, duration, time), TRUE)
    ELSE IF action.type \in {"ACTION_ZOOM", "ACTION_ZOOM_IN", "ACTION_ZOOM_OUT"}
    THEN Return(Register(c, "TASK_ZOOM", d, duration, time), TRUE)
    ELSE Return(Register(c, "TASK_PAN", d, duration, time), TRUE)

\* MapManipulator::handleAction
handleAction(c, action, d, time, duration) ==
    IF action.type = "ACTION_HOME" THEN Return(home(c), TRUE)
    ELSE IF action.type \in {"ACTION_PAN", "ACTION_PAN_LEFT", "ACTION_PAN_RIGHT",
                             "ACTION_PAN_UP", "ACTION_PAN_DOWN"}
    THEN Return(Register(c, "TASK_PAN", d, duration, time), TRUE)
    ELSE IF action.type \in {"ACTION_ROTATE", "ACTION_ROTATE_LEFT", "ACTION_ROTATE_RIGHT",
                             "ACTION_ROTATE_UP", "ACTION_ROTATE_DOWN"}
    THEN Return(Register(c, "TASK_ROTATE", d, duration, time), TRUE)
    ELSE IF action.type \in {"ACTION_ZOOM", "ACTION_ZOOM_IN", "ACTION_ZOOM_OUT"}
    THEN Return(Register(c, "TASK_ZOOM", d, duration, time), TRUE)
    ELSE Return(c, FALSE)

\* the direction vector of handleKeyboardAction and handleScrollAction
DirVector(dir) ==
    IF dir = DIR_LEFT THEN <<One, 0>>
    ELSE IF dir = DIR_RIGHT THEN <<-One, 0>>
    ELSE IF dir = DIR_UP THEN <<0, -One>>
    ELSE IF dir = DIR_DOWN THEN <<0, One>>
    ELSE <<0, 0>>

\* transferProjection: the orthographic projection made from an ellipsoid perspective
transferProjection(ellipsoidProjection) == [kind |-> "Orthographic", extent |-> One]

\* a toggle that restores the saved projection without saving the current one
toggleProjection_restoreOnly(c) ==
    IF c.camera.savedProjection # None
    THEN [c EXCEPT !.camera.projectionMatrix = c.camera.savedProjection]
    ELSE IF c.camera.projectionMatrix.kind = "EllipsoidPerspective"
    THEN [c EXCEPT !.camera.savedProjection = c.camera.projectionMatrix,
                   !.camera.projectionMatrix = transferProjection(c.camera.projectionMatrix)]
    ELSE c

\* the ACTION_TOGGLE_PROJECTION branch of handleKeyboardAction
toggleProjection(c) ==
    IF c.camera.savedProjection # None
    THEN [c EXCEPT !.camera.savedProjection = c.camera.projectionMatrix,
                   !.camera.projectionMatrix = c.camera.savedProjection]
    ELSE IF c.camera.projectionMatrix.kind = "EllipsoidPerspective"
    THEN [c EXCEPT !.camera.savedProjection = c.camera.projectionMatrix,
                   !.camera.projectionMatrix = transferProjection(c.camera.projectionMatrix)]
    ELSE c

\* MapManipulator::handleKeyboardAction
handleKeyboardAction(c, action, time, duration) ==
    IF action.type = "ACTION_TOGGLE_PROJECTION" THEN Return(toggleProjection(c), TRUE)
    ELSE LET v == DirVector(action.dir)
             d == <<FMul(v[1], c.settings.keyboard_sens), FMul(v[2], c.settings.keyboard_sens)>>
         IN  handleAction(c, action, applyOptionsToDeltas(action, d), time, duration)

\* scrollFactor of handleScrollAction
ScrollFactor == Dec(15, 10)

\* a scroll handler with the direction vector of opposite sign
handleScrollAction_reversed(c, action, time, duration) ==
    LET v == DirVector(action.dir)
        f == FMul(ScrollFactor, c.settings.scroll_sens)
        d == <<FMul(-v[1], f), FMul(-v[2], f)>>
    IN  handleAction(c, action, applyOptionsToDeltas(action, d), time, duration)

\* MapManipulator::handleScrollAction
handleScrollAction(c, action, time, duration) ==
    LET v == DirVector(action.dir)
        f == FMul(ScrollFactor, c.settings.scroll_sens)
        d == <<FMul(v[1], f), FMul(v[2], f)>>
    IN  handleAction(c, action, applyOptionsToDeltas(action, d), time, duration)

\* a serviceTask that retires the task only below a remaining duration of zero
serviceTask_strictExpiry(c, time) ==
    IF c.task.type = "TASK_NONE" THEN c
    ELSE LET raw == to_seconds(time - c.task.time_last_service)
         IN  IF raw > 0
             THEN LET dt == Min(raw, c.task.duration_s)
                      dx == FMul(c.task.delta[1], dt)
                      dy == FMul(c.task.delta[2], dt)
                      c1 == IF c.task.type = "TASK_PAN" THEN pan(c, dx, dy)
                            ELSE IF c.task.type = "TASK_ROTATE" THEN rotate(c, dx, dy)
                            ELSE IF c.task.type = "TASK_ZOOM" THEN zoom(c, dx, dy)
                            ELSE c
                      left == c.task.duration_s - dt
                  IN  [c1 EXCEPT !.task.duration_s = left,
                                 !.task.time_last_service = time,
                                 !.task.type = IF left < 0 THEN "TASK_NONE" ELSE @,
                                 !.hist.applied = <<@[1] + dx, @[2] + dy>>,
                                 !.hist.spent = @ + dt,
                                 !.hist.ticks = @ + 1,
                                 !.hist.small = @ /\ (time - c.task.time_last_service) * One
                                                         < c.hist.reg.duration * 1000000]
             ELSE c

\* serviceTask without the cap of the elapsed time by the remaining duration
serviceTask_uncapped(c, time) ==
    IF c.task.type = "TASK_NONE" THEN c
    ELSE LET raw == to_seconds(time - c.task.time_last_service)
         IN  IF raw > 0
             THEN LET dt == raw
                      dx == FMul(c.task.delta[1], dt)
                      dy == FMul(c.task.delta[2], dt)
                      c1 == IF c.task.type = "TASK_PAN" THEN pan(c, dx, dy)
                            ELSE IF c.task.type = "TASK_ROTATE" THEN rotate(c, dx, dy)
                            ELSE IF c.task.type = "TASK_ZOOM" THEN zoom(c, dx, dy)
                            ELSE c
                      left == c.task.duration_s - dt
                  IN  [c1 EXCEPT !.task.duration_s = left,
                                 !.task.time_last_service = time,
                                 !.task.type = IF left <= 0 THEN "TASK_NONE" ELSE @,
                                 !.hist.applied = <<@[1] + dx, @[2] + dy>>,
                                 !.hist.spent = @ + dt,
                                 !.hist.ticks = @ + 1,
                                 !.hist.small = @ /\ (time - c.task.time_last_service) * One
                                                         < c.hist.reg.duration * 1000000]
             ELSE c

\* MapManipulator::serviceTask
serviceTask(c, time) ==
    IF c.task.type = "TASK_NONE" THEN c
    ELSE LET raw == to_seconds(time - c.task.time_last_service)
         IN  IF raw > 0
             THEN LET dt == Min(raw, c.task.duration_s)
                      dx == FMul(c.task.delta[1], dt)
                      dy == FMul(c.task.delta[2], dt)
                      c1 == IF c.task.type = "TASK_PAN" THEN pan(c, dx, dy)
                            ELSE IF c.task.type = "TASK_ROTATE" THEN rotate(c, dx, dy)
                            ELSE IF c.task.type = "TASK_ZOOM" THEN zoom(c, dx, dy)
                            ELSE c
                      left == c.task.duration_s - dt
                  IN  [c1 EXCEPT !.task.duration_s = left,
                                 !.task.time_last_service = time,
                                 !.task.type = IF left <= 0 THEN "TASK_NONE" ELSE @,
                                 !.hist.applied = <<@[1] + dx, @[2] + dy>>,
                                 !.hist.spent = @ + dt,
                                 !.hist.ticks = @ + 1,
                                 !.hist.small = @ /\ (time - c.task.time_last_service) * One
                                                         < c.hist.reg.duration * 1000000]
             ELSE c

\* MapManipulator::handleContinuousAction
handleContinuousAction(c, action, time) ==
    LET t_factor == FMul(to_seconds(time - c.lastContinuousTime), 60 * One)
        c1 == [c EXCEPT !.lastContinuousTime = time]
    IN  handleMovementAction(c1, action.type,
                             <<FMul(c.continuousDelta[1], t_factor),
                               FMul(c.continuousDelta[2], t_factor)>>)

\* the pose written to the camera's view matrix
ViewMatrix(st) == [center |-> st.center, centerRotation |-> st.centerRotation,
                   localRotation |-> st.localRotation, distance |-> st.distance]

\* a frame handler that services the task before the continuous action
applyFrame_taskFirst(c, time) ==
    LET c1 == serviceTask(c, time)
        c2 == IF c1.continuous THEN handleContinuousAction(c1, c1.continuousAction, time)
              ELSE [c1 EXCEPT !.continuousDelta = <<0, 0>>]
    IN  [c2 EXCEPT !.camera.viewMatrix = ViewMatrix(c2.state)]

\* MapManipulator::apply(FrameEvent)
applyFrame(c, time) ==
    LET c1 == IF c.continuous THEN handleContinuousAction(c, c.continuousAction, time)
              ELSE [c EXCEPT !.continuousDelta = <<0, 0>>]
        c2 == serviceTask(c1, time)
    IN  [c2 EXCEPT !.camera.viewMatrix = ViewMatrix(c2.state)]

\* MapManipulator::apply(KeyPressEvent)
applyKeyPress(c, e) ==
    LET action == getAction(c.settings.bindings, EVENT_KEY_DOWN, e.keyBase, e.keyModifier)
        c1 == [c EXCEPT !.keyPress = [keyBase |-> e.keyBase, keyModifier |-> e.keyModifier],
                        !.lastAction = action]
    IN  handleKeyboardAction(c1, action, e.time, 0)

\* a key release that clears all the event state
applyKeyRelease_clearEvents(c) == clearEvents(c, TRUE)

\* a key release that also cancels the task
applyKeyRelease_cancelsTask(c) == [c EXCEPT !.keyPress = None, !.task = TaskReset(@)]

\* MapManipulator::apply(KeyReleaseEvent)
applyKeyRelease(c) == [c EXCEPT !.keyPress = None]

\* the modifier a scroll or drag is looked up with
HeldModifier(c) == IF c.keyPress # None THEN c.keyPress.keyModifier ELSE 0

\* a direction that looks at the vertical delta first
ScrollDir_verticalFirst(delta) ==
    IF delta[2] < 0 THEN DIR_UP
    ELSE IF delta[2] > 0 THEN DIR_DOWN
    ELSE IF delta[1] < 0 THEN DIR_LEFT
    ELSE IF delta[1] > 0 THEN DIR_RIGHT
    ELSE DIR_NA

\* the direction of a scroll event
ScrollDir(delta) ==
    IF delta[1] < 0 THEN DIR_LEFT
    ELSE IF delta[1] > 0 THEN DIR_RIGHT
    ELSE IF delta[2] < 0 THEN DIR_UP
    ELSE IF delta[2] > 0 THEN DIR_DOWN
    ELSE DIR_NA

\* MapManipulator::apply(ScrollWheelEvent): handled is never set
applyScroll(c, e) ==
    LET action == getAction(c.settings.bindings, EVENT_SCROLL, ScrollDir(e.delta),
                            HeldModifier(c))
        c1 == [c EXCEPT !.lastAction = action]
    IN  Return(handleScrollAction(c1, action, e.time,
                                  getDoubleOption(action, "OPTION_DURATION", Dec(2, 10))),
               FALSE)

-----------------------------------------------------------------------------
(* Pointer events *)

\* the camera's render area, in pixels
RenderWidth == 100
RenderHeight == 100

\* MapManipulator::ndc: window coordinates to normalized device coordinates
ndc(e) ==
    <<FMul(Dec(2 * e.x, RenderWidth) - One, Dec(RenderWidth, RenderHeight)),
      Dec(2 * e.y, RenderHeight) - One>>

\* the integer part of a square root
ISqrt(n) == CHOOSE r \in 0..n : r * r <= n /\ n < (r + 1) * (r + 1)

\* sqrt(n) * 20000 against p, exactly: "LT", "EQ" or "GT" (n >= 0, p >= 0)
SqrtOrder(n, p) ==
    LET r == ISqrt(n)
        k == n - r * r
        m == p - r * 20000
        t == k * 10000 - r * m
    IN  IF p >= (r + 1) * 20000 THEN "LT"
        ELSE IF p < r * 20000 THEN "GT"
        ELSE IF k = 0 /\ m = 0 THEN "EQ"
        ELSE IF t <= 0 THEN "LT"
        ELSE IF t >= 10000 THEN "GT"
        ELSE IF t * 40000 < m * m THEN "LT"
        ELSE IF t * 40000 = m * m THEN "EQ"
        ELSE "GT"

\* len against dt * velocity in isMouseClick, exactly: len = 2 sqrt(dx^2 + dy^2) / height
\* from the pixel distance (the aspect ratio cancels the width), dt in whole milliseconds
ClickOrder(press, release) ==
    LET dx == release.x - press.x
        dy == release.y - press.y
        dtmillis == (release.time - press.time) \div 1000
    IN  SqrtOrder(dx * dx + dy * dy, dtmillis * RenderHeight)

\* the press and the release sit exactly on the threshold with a displacement: the float
\* roundings of len and of dt * velocity decide the comparison
OnThreshold(press, release) ==
    /\ press # None
    /\ release # None
    /\ <<press.x, press.y>> # <<release.x, release.y>>
    /\ ClickOrder(press, release) = "EQ"

\* a click test with the opposite comparison
isMouseClick_reversed(c, roundedBelow) ==
    IF c.buttonPress = None \/ c.buttonRelease = None THEN FALSE
    ELSE ClickOrder(c.buttonPress, c.buttonRelease) = "GT"

\* MapManipulator::isMouseClick: len < dt * velocity in float; roundedBelow says whether
\* the rounded len came out below the rounded dt * velocity when the two are equal
isMouseClick(c, roundedBelow) ==
    IF c.buttonPress = None \/ c.buttonRelease = None THEN FALSE
    ELSE \/ ClickOrder(c.buttonPress, c.buttonRelease) = "LT"
         \/ (OnThreshold(c.buttonPress, c.buttonRelease) /\ roundedBelow)

\* MapManipulator::screenToWorld: not implemented, never a point
screenToWorld(c, mx, my) == FALSE

\* MapManipulator::handlePointAction
handlePointAction(c, action, mx, my, time) == Return(c, TRUE)

\* MapManipulator::apply(ButtonPressEvent)
applyButtonPress(c, e) ==
    Return([clearEvents(c, FALSE) EXCEPT !.buttonPress = e], TRUE)

\* a button release that leaves the press on record
applyButtonRelease_keepsPress(c, e, roundedBelow) ==
    LET c1 == [c EXCEPT !.buttonRelease = e]
        c2 == IF isMouseClick(c1, roundedBelow)
              THEN LET action == getAction(c1.settings.bindings, EVENT_MOUSE_CLICK,
                                           c1.buttonPress.button, c1.buttonPress.mask)
                   IN  handlePointAction([c1 EXCEPT !.lastAction = action, !.click = TRUE],
                                         action, e.x, e.y, e.time)
              ELSE c1
    IN  Return([clearEvents(c2, TRUE) EXCEPT !.buttonPress = c.buttonPress], TRUE)

\* MapManipulator::apply(ButtonReleaseEvent)
applyButtonRelease(c, e, roundedBelow) ==
    LET c1 == [c EXCEPT !.buttonRelease = e]
        c2 == IF isMouseClick(c1, roundedBelow)
              THEN LET action == getAction(c1.settings.bindings, EVENT_MOUSE_CLICK,
                                           c1.buttonPress.button, c1.buttonPress.mask)
                   IN  handlePointAction([c1 EXCEPT !.lastAction = action, !.click = TRUE],
                                         action, e.x, e.y, e.time)
              ELSE c1
    IN  Return(clearEvents(c2, TRUE), TRUE)

\* a handleMouseAction that applies the delta to the pose in continuous mode as well
handleMouseAction_alwaysApplies(c, action, time) ==
    IF c.currentMove = None \/ c.previousMove = None THEN Return(c, FALSE)
    ELSE LET prev == ndc(c.previousMove)
             curr == ndc(c.currentMove)
             raw == <<curr[1] - prev[1], -(curr[2] - prev[2])>>
         IN  IF raw = <<0, 0>> THEN Return(c, FALSE)
             ELSE LET d == applyOptionsToDeltas(action,
                               <<FMul(raw[1], c.settings.mouse_sens),
                                 FMul(raw[2], c.settings.mouse_sens)>>)
                  IN  IF c.continuous
                      THEN Return([handleMovementAction(c, action.type, d)
                                      EXCEPT !.continuousDelta =
                                      <<@[1] + FMul(d[1], Dec(1, 100)),
                                        @[2] + FMul(d[2], Dec(1, 100))>>], TRUE)
                      ELSE Return(handleMovementAction(c, action.type, d), TRUE)

\* MapManipulator::handleMouseAction
handleMouseAction(c, action, time) ==
    IF c.currentMove = None \/ c.previousMove = None THEN Return(c, FALSE)
    ELSE LET prev == ndc(c.previousMove)
             curr == ndc(c.currentMove)
             raw == <<curr[1] - prev[1], -(curr[2] - prev[2])>>
         IN  IF raw = <<0, 0>> THEN Return(c, FALSE)
             ELSE LET d == applyOptionsToDeltas(action,
                               <<FMul(raw[1], c.settings.mouse_sens),
                                 FMul(raw[2], c.settings.mouse_sens)>>)
                  IN  IF c.continuous
                      THEN Return([c EXCEPT !.continuousDelta =
                                      <<@[1] + FMul(d[1], Dec(1, 100)),
                                        @[2] + FMul(d[2], Dec(1, 100))>>], TRUE)
                      ELSE Return(handleMovementAction(c, action.type, d), TRUE)

\* a move handler that clears the event state on every move without a button
applyMove_clearsAlways(c, e) ==
    LET buttonReleased == e.mask = 0 /\ c.currentMove # None /\ c.currentMove.mask # 0
        c1 == [c EXCEPT !.previousMove = c.currentMove, !.currentMove = e]
    IN  IF e.mask # 0
        THEN LET action == getAction(c1.settings.bindings, EVENT_MOUSE_DRAG, e.mask,
                                     HeldModifier(c1))
                 wasContinuous == c1.continuous
                 c2 == [c1 EXCEPT !.lastAction = action,
                                  !.continuous = getBoolOption(action, "OPTION_CONTINUOUS", FALSE)]
                 c3 == handleMouseAction(c2, action, e.time)
                 c4 == IF c3.continuous /\ ~wasContinuous
                       THEN [c3 EXCEPT !.continuousAction = action,
                                       !.lastContinuousTime = e.time]
                       ELSE c3
             IN  Return(c4, TRUE)
        ELSE Return(clearEvents(c1, TRUE), FALSE)

\* MapManipulator::apply(MoveEvent)
applyMove(c, e) ==
    LET buttonReleased == e.mask = 0 /\ c.currentMove # None /\ c.currentMove.mask # 0
        c1 == [c EXCEPT !.previousMove = c.currentMove, !.currentMove = e]
    IN  IF e.mask # 0
        THEN LET action == getAction(c1.settings.bindings, EVENT_MOUSE_DRAG, e.mask,
                                     HeldModifier(c1))
                 wasContinuous == c1.continuous
                 c2 == [c1 EXCEPT !.lastAction = action,
                                  !.continuous = getBoolOption(action, "OPTION_CONTINUOUS", FALSE)]
                 c3 == handleMouseAction(c2, action, e.time)
                 c4 == IF c3.continuous /\ ~wasContinuous
                       THEN [c3 EXCEPT !.continuousAction = action,
                                       !.lastContinuousTime = e.time]
                       ELSE c3
             IN  Return(c4, TRUE)
        ELSE IF buttonReleased THEN Return(clearEvents(c1, TRUE), FALSE)
        ELSE Return(c1, FALSE)

\* a touch event that ends the gesture in progress
applyTouch_clearEvents(c) == clearEvents(c, TRUE)

\* MapManipulator::apply(TouchDownEvent), (TouchUpEvent), (TouchMoveEvent)
applyTouch(c) == c

\* a settings replacement that leaves a pending task in the slot
applySettings_keepsTask(c, supplied) ==
    LET c1 == [c EXCEPT !.settings = IF supplied # None THEN supplied ELSE DefaultSettings]
    IN  setDistance(c1, c1.state.distance)

\* MapManipulator::applySettings: a null pointer installs the default settings
applySettings(c, supplied) ==
    LET c1 == [c EXCEPT !.settings = IF supplied # None THEN supplied ELSE DefaultSettings,
                        !.task.type = "TASK_NONE"]
    IN  setDistance(c1, c1.state.distance)

-----------------------------------------------------------------------------
(* Recentering on the look vector *)

\* a point is kept by its x and y; the third coordinate of a vector is its height
\* above the z = 0 plane
RECURSIVE SqrtBetween(_, _, _)
\* the integer part of the square root of n, known to lie in lo..hi
SqrtBetween(n, lo, hi) ==
    IF lo = hi THEN lo
    ELSE LET mid == (lo + hi + 1) \div 2
         IN  IF mid * mid <= n THEN SqrtBetween(n, mid, hi) ELSE SqrtBetween(n, lo, mid - 1)

Length2(v) == SqrtBetween(v[1] * v[1] + v[2] * v[2], 0, Abs(v[1]) + Abs(v[2]))

\* a value no number equals: the coordinates of a normalized zero vector
NaN == [nan |-> TRUE]

\* vsg::normalize(v) * len
Rescaled(v, len) ==
    LET l == Length2(v)
    IN  IF l = 0 THEN <<NaN, NaN>> ELSE <<RoundDiv(v[1] * len, l), RoundDiv(v[2] * len, l)>>

\* the two points recalculateCenterFromLookVector and intersectAlongLookVector pass to
\* intersect(start, end): the eye, and look * _state.distance * 1.5
LookSegment(c, eye, look) ==
    [start |-> eye,
     end |-> [i \in 1..3 |-> FMul(FMul(look[i], c.state.distance), Dec(15, 10))]]

\* the end of recalculateCenterFromLookVector: the center is moved to the intersection
Recentered(c, geo, intersection) ==
    IF intersection = None THEN Return(c, FALSE)
    ELSE IF geo
    THEN Return(setCenter(c, Rescaled(c.state.center, Length2(intersection))), TRUE)
    ELSE Return(setCenter(c, intersection), TRUE)

\* a recentering without the test for a plane behind the camera
recalculateCenterFromLookVector_noBehindTest(c, geo, eye, look, sceneHit, ellipsoidHit) ==
    IF sceneHit # None THEN Recentered(c, geo, sceneHit)
    ELSE IF geo THEN Recentered(c, geo, ellipsoidHit)
    ELSE LET LdotN == look[3]
         IN  IF equiv(LdotN, 0) THEN Return(c, FALSE)
             ELSE LET D == FDiv(0 - eye[3], LdotN)
                  IN  Recentered(c, geo, <<eye[1] + FMul(look[1], D),
                                           eye[2] + FMul(look[2], D)>>)

\* MapManipulator::recalculateCenterFromLookVector.  eye and look are read from the
\* camera's view matrix; sceneHit is the answer of intersect(), ellipsoidHit that of
\* intersectGeocentricLine (a point, or None)
recalculateCenterFromLookVector(c, geo, eye, look, sceneHit, ellipsoidHit) ==
    IF sceneHit # None THEN Recentered(c, geo, sceneHit)
    ELSE IF geo THEN Recentered(c, geo, ellipsoidHit)
    ELSE LET LdotN == look[3]
         IN  IF equiv(LdotN, 0) THEN Return(c, FALSE)
             ELSE LET D == FDiv(0 - eye[3], LdotN)
                  IN  IF D < 0 THEN Return(c, FALSE)
                      ELSE Recentered(c, geo, <<eye[1] + FMul(look[1], D),
                                                eye[2] + FMul(look[2], D)>>)

-----------------------------------------------------------------------------
(* Viewpoint transitions (the code between #if 0 and #endif, lines 776 to 1093) *)

\* smoothStepInterp
smoothStepInterp(t) == FMul(FMul(t, t), 3 * One - 2 * t)

\* vsg::normalize(v), or NaN for the zero vector
Normalized(v) ==
    LET l == Length2(v)
    IN  IF l = 0 THEN <<NaN, NaN>> ELSE <<FDiv(v[1], l), FDiv(v[2], l)>>

\* lerp
lerp(a, b, t) ==
    <<FMul(a[1], One - t) + FMul(b[1], t), FMul(a[2], One - t) + FMul(b[2], t)>>

\* nlerp
nlerp(a, b, t) ==
    LET am == Length2(a)
        bm == Length2(b)
        c == lerp(a, b, t)
        n == Normalized(c)
        m == FMul(One - t, am) + FMul(t, bm)
    IN  IF Length2(c) = 0 THEN n ELSE <<FMul(n[1], m), FMul(n[2], m)>>

\* sin(M_PI * x) for 0 <= x <= 1, to the resolution kept here
SinPi(x) ==
    LET p == FMul(x, One - x)
    IN  FDiv(16 * p, 5 * One - 4 * p)

\* an angle in tenths of a degree times a double
Scaled(angle, t) == RoundDiv(angle * t, One)

\* MapManipulator::getViewpoint: the viewpoint of the current pose
getViewpoint(c) ==
    [point |-> c.state.center,
     heading |-> normalizeAzimRad(c.state.localRotation.azim),
     pitch |-> c.state.localRotation.pitch,
     range |-> c.state.distance]

\* MapManipulator::setLookAt
setLookAt(c, center, azim, pitch, range) ==
    LET c1 == setDistance(setCenter(c, center), range)
    IN  [c1 EXCEPT !.state.localRotation =
            [azim |-> WrapAzim(normalizeAzimRad(azim)),
             pitch |-> clamp(pitch, c1.settings.min_pitch, c1.settings.max_pitch)]]

\* isSettingViewpoint
isSettingViewpoint(c) == c.setVP.VP0 # None /\ c.setVP.VP1 # None

\* the progress of setViewpointFrame: t, and the interpolation coefficient made of it
Progress(tr, time_s) ==
    LET elapsed == time_s - tr.StartTime.value
        t == Min(One, IF tr.Duration > 0 THEN FDiv(elapsed, tr.Duration) ELSE One)
        half == One \div 2
        tp == IF tr.ArcHeight > 0
              THEN IF t <= half THEN FMul(half, 2 * t)
                   ELSE half + FMul(half, 2 * (t - half))
              ELSE IF t > 0 THEN smoothStepInterp(t)
              ELSE t
    IN  [t |-> t, tp |-> tp]

\* a frame of the transition that keeps the start viewpoint at the end
setViewpointFrame_keepsStart(c, time_s) ==
    LET tr == c.setVP
    IN  IF tr.StartTime = None
        THEN [c EXCEPT !.setVP.StartTime = Some(time_s), !.progress = 0]
        ELSE LET tp == Progress(tr, time_s).tp
                 newCenter == IF tr.geodetic THEN nlerp(tr.VP0.point, tr.VP1.point, tp)
                              ELSE lerp(tr.VP0.point, tr.VP1.point, tp)
                 d == tr.VP1.heading - tr.VP0.heading
                 d_azim == IF d > Pi THEN d - TwoPi ELSE IF d < -Pi THEN d + TwoPi ELSE d
                 newAzim == tr.VP0.heading + Scaled(d_azim, tp)
                 newPitch == tr.VP0.pitch + Scaled(tr.VP1.pitch - tr.VP0.pitch, tp)
                 newRange == tr.VP0.range + FMul(tr.VP1.range - tr.VP0.range, tp)
                                + FMul(SinPi(tp), tr.ArcHeight)
             IN  [setLookAt(c, newCenter, newAzim, newPitch, newRange)
                     EXCEPT !.progress = tp, !.interpolated = TRUE]

\* MapManipulator::setViewpointFrame; the value returned is kept in progress
setViewpointFrame(c, time_s) ==
    LET tr == c.setVP
    IN  IF tr.StartTime = None
        THEN [c EXCEPT !.setVP.StartTime = Some(time_s), !.progress = 0]
        ELSE LET p == Progress(tr, time_s)
                 tp == p.tp
                 newCenter == IF tr.geodetic THEN nlerp(tr.VP0.point, tr.VP1.point, tp)
                              ELSE lerp(tr.VP0.point, tr.VP1.point, tp)
                 d == tr.VP1.heading - tr.VP0.heading
                 d_azim == IF d > Pi THEN d - TwoPi ELSE IF d < -Pi THEN d + TwoPi ELSE d
                 newAzim == tr.VP0.heading + Scaled(d_azim, tp)
                 newPitch == tr.VP0.pitch + Scaled(tr.VP1.pitch - tr.VP0.pitch, tp)
                 newRange == tr.VP0.range + FMul(tr.VP1.range - tr.VP0.range, tp)
                                + FMul(SinPi(tp), tr.ArcHeight)
                 c1 == setLookAt(c, newCenter, newAzim, newPitch, newRange)
                 c2 == IF p.t >= One
                       THEN [c1 EXCEPT !.setVP.VP0 = None, !.setVP.VP1 = None]
                       ELSE c1
             IN  [c2 EXCEPT !.progress = tp, !.interpolated = TRUE]

\* MapManipulator::setViewpoint on an established manipulator.  arcHeight is the value
\* the call derives from the two viewpoints; geodetic is _srs.isGeodetic()
setViewpoint(c, vp, duration_seconds, time_s, arcHeight, geodetic) ==
    LET vp0 == getViewpoint(c)
        vp1 == [point |-> vp0.point,
                heading |-> IF vp.heading # None THEN vp.heading.value ELSE vp0.heading,
                pitch |-> IF vp.pitch # None THEN vp.pitch.value ELSE vp0.pitch,
                range |-> IF vp.range # None THEN vp.range.value ELSE vp0.range]
        c1 == [c EXCEPT !.setVP = [VP0 |-> vp0, VP1 |-> vp1,
                                   StartTime |-> c.setVP.StartTime,
                                   Duration |-> Max(duration_seconds, 0),
                                   ArcHeight |-> IF duration_seconds > 0 THEN arcHeight
                                                 ELSE c.setVP.ArcHeight,
                                   geodetic |-> geodetic]]
        c2 == IF duration_seconds > 0 THEN [c1 EXCEPT !.setVP.StartTime = None]
              ELSE setViewpointFrame([c1 EXCEPT !.setVP.StartTime = Some(time_s)], time_s)
    IN  [c2 EXCEPT !.task.type = "TASK_NONE"]

-----------------------------------------------------------------------------
(* The state after construction *)

\* the projection the host has given the camera
Projections == {[kind |-> "EllipsoidPerspective"], [kind |-> "Perspective"]}

\* MapManipulator::MapManipulator: reinitializeHome, reinitialize,
\* configureDefaultSettings, home
Constructed(projection) ==
    home([settings |-> DefaultSettings,
          state |-> [center |-> <<0, 0>>, centerRotation |-> [at |-> <<0, 0>>],
                     localRotation |-> IdentityRotation, distance |-> One],
          task |-> NoTask, keyPress |-> None, buttonPress |-> None, buttonRelease |-> None,
          currentMove |-> None, previousMove |-> None,
          continuous |-> FALSE, continuousDelta |-> <<0, 0>>,
          continuousAction |-> NullAction, lastContinuousTime |-> 0,
          lastAction |-> NullAction,
          camera |-> [projectionMatrix |-> projection, savedProjection |-> None,
                      viewMatrix |-> None],
          setVP |-> NoTransition,
          hist |-> [reg |-> None, applied |-> <<0, 0>>, spent |-> 0, ticks |-> 0,
                    small |-> TRUE, frames |-> TRUE, previous |-> None, distance |-> 0],
          calls |-> <<>>, ret |-> FALSE, click |-> FALSE, registered |-> FALSE,
          progress |-> 0, interpolated |-> FALSE])

InitWith(projection, geo) ==
    /\ Holds(Constructed(projection))
    /\ geocentric = geo
    /\ now = 0
    /\ ev = [kind |-> "construct", time |-> 0, handled |-> FALSE, calls |-> <<>>,
             click |-> FALSE, registered |-> FALSE, arg |-> None]
    /\ ncalls = 0
    /\ nevents = 0

-----------------------------------------------------------------------------
(* Calls of the owner on the Settings object (getSettings()) *)

\* the latest call, as the claims read it
Event(kind, time, c, arg) ==
    [kind |-> kind, time |-> time, handled |-> c.ret, calls |-> c.calls,
     click |-> c.click, registered |-> c.registered, arg |-> arg]

\* whether only frame ticks have followed the last registration
Noted(kind, c) ==
    [c EXCEPT !.hist.frames = IF c.registered THEN TRUE ELSE IF kind = "Frame" THEN @ ELSE FALSE]

\* a call of the owner: no event, no time stamp
OwnerCall(kind, c, arg) ==
    /\ ncalls < MaxCalls
    /\ ncalls' = ncalls + 1
    /\ Commit(Noted(kind, c))
    /\ ev' = Event(kind, now, c, arg)
    /\ UNCHANGED <<now, nevents>>

\* an event delivered by the host, with its time stamp
Deliver(kind, time, c, arg) ==
    /\ time <= MaxTime
    /\ kind # "Frame" => nevents < MaxEvents
    /\ nevents' = IF kind = "Frame" THEN nevents ELSE nevents + 1
    /\ Commit(Noted(kind, c))
    /\ ev' = Event(kind, time, c, arg)
    /\ now' = time
    /\ UNCHANGED ncalls

\* the bind helpers, by name
BindBy(helper, b, actionType, input_mask, modkey_mask, options) ==
    CASE helper = "bindMouse" -> bindMouse(b, actionType, input_mask, modkey_mask, options)
      [] helper = "bindMouseClick" ->
            bindMouseClick(b, actionType, input_mask, modkey_mask, options)
      [] helper = "bindMouseDoubleClick" ->
            bindMouseDoubleClick(b, actionType, input_mask, modkey_mask, options)
      [] helper = "bindKey" -> bindKey(b, actionType, input_mask, modkey_mask, options)
      [] helper = "bindScroll" -> bindScroll(b, actionType, input_mask, modkey_mask, options)
      [] helper = "bindPinch" -> bindPinch(b, actionType, options)
      [] helper = "bindTwist" -> bindTwist(b, actionType, options)
      [] helper = "bindMultiDrag" -> bindMultiDrag(b, actionType, options)

\* the InputSpec a bind helper constructs
HelperSpec(helper, input_mask, modkey_mask) ==
    CASE helper = "bindMouse" -> InputSpec(EVENT_MOUSE_DRAG, input_mask, modkey_mask)
      [] helper = "bindMouseClick" -> InputSpec(EVENT_MOUSE_CLICK, input_mask, modkey_mask)
      [] helper = "bindMouseDoubleClick" ->
            InputSpec(EVENT_MOUSE_DOUBLE_CLICK, input_mask, modkey_mask)
      [] helper = "bindKey" -> InputSpec(EVENT_KEY_DOWN, input_mask, modkey_mask)
      [] helper = "bindScroll" -> InputSpec(EVENT_SCROLL, input_mask, modkey_mask)
      [] helper = "bindPinch" -> InputSpec(EVENT_MULTI_PINCH, 0, 0)
      [] helper = "bindTwist" -> InputSpec(EVENT_MULTI_TWIST, 0, 0)
      [] helper = "bindMultiDrag" -> InputSpec(EVENT_MULTI_DRAG, 0, 0)

Helpers == {"bindMouse", "bindMouseClick", "bindMouseDoubleClick", "bindKey", "bindScroll",
            "bindPinch", "bindTwist", "bindMultiDrag"}

\* getSettings()->bindX(...): one of the bind helpers, called by the owner
BindCall(helpers, types, inputs, mods, optionLists) ==
    \E helper \in helpers, type \in types, i \in inputs, m \in mods, o \in optionLists :
        LET spec == HelperSpec(helper, i, m)
            c == [Fields EXCEPT !.settings.bindings = BindBy(helper, @, type, i, m, o)]
        IN  OwnerCall("bind", c,
                      [spec |-> spec, action |-> Action(type, o),
                       replaced |-> spec \in DOMAIN settings.bindings])

\* _bindings[spec] in place of find: a miss inserts a default action
getActionCall_subscript(bindings, event_type, input_mask, modkey_mask) ==
    LET spec == InputSpec(event_type, input_mask, LookupMask(modkey_mask))
        b2 == IF MapFind(bindings, spec) = {} THEN MapAssign(bindings, spec, NullAction)
              ELSE bindings
    IN  [result |-> getAction(b2, event_type, input_mask, modkey_mask), bindings |-> b2]

\* Settings::getAction as a call: the action found and the table after the call
\* (find inserts nothing)
getActionCall(bindings, event_type, input_mask, modkey_mask) ==
    [result |-> getAction(bindings, event_type, input_mask, modkey_mask),
     bindings |-> bindings]

\* getSettings()->getAction(...), called by the owner
LookupCall(events, inputs, mods) ==
    \E e \in events, i \in inputs, m \in mods :
        LET r == getActionCall(settings.bindings, e, i, m)
            c == [Fields EXCEPT !.settings.bindings = r.bindings]
        IN  OwnerCall("getAction", c,
                      [spec |-> InputSpec(e, i, m), result |-> r.result])

\* getSettings()->setMinMaxDistance(min, max)
SetMinMaxDistanceCall(values) ==
    \E lo \in values, hi \in values :
        OwnerCall("setMinMaxDistance",
                  [Fields EXCEPT !.settings = setMinMaxDistance(@, lo, hi)],
                  [min |-> lo, max |-> hi])

\* getSettings()->setMinMaxPitch(min, max)
SetMinMaxPitchCall(values) ==
    \E lo \in values, hi \in values :
        OwnerCall("setMinMaxPitch",
                  [Fields EXCEPT !.settings = setMinMaxPitch(@, lo, hi)],
                  [min |-> lo, max |-> hi])

-----------------------------------------------------------------------------
(* Calls of the owner on the controller, and the events the host delivers *)

\* applySettings(settings), with a Settings object or a null pointer
ApplySettingsCall(supplied) ==
    \E s \in supplied : OwnerCall("applySettings", applySettings(Fields, s), [settings |-> s])

\* home()
HomeCall == OwnerCall("home", home(Fields), None)

\* setDistance(distance)
SetDistanceCall(values) ==
    \E d \in values : OwnerCall("setDistance", setDistance(Fields, d), [distance |-> d])

\* zoom(dx, dy)
ZoomCall(deltas) ==
    \E d \in deltas : OwnerCall("zoom", zoom(Fields, d[1], d[2]), [delta |-> d])

\* rotate(dx, dy), in radians
RotateCall(deltas) ==
    \E d \in deltas : OwnerCall("rotate", rotate(Fields, d[1], d[2]), [delta |-> d])

\* pan(dx, dy)
PanCall(deltas) ==
    \E d \in deltas : OwnerCall("pan", pan(Fields, d[1], d[2]), [delta |-> d])

KeyPressEv(keys, mods, steps) ==
    \E k \in keys, m \in mods, dt \in steps :
        LET e == [keyBase |-> k, keyModifier |-> m, time |-> now + dt]
        IN  Deliver("KeyPress", e.time, applyKeyPress(Fields, e), e)

KeyReleaseEv(steps) ==
    \E dt \in steps :
        Deliver("KeyRelease", now + dt, applyKeyRelease(Fields), [keyPress |-> keyPress])

\* a pointer event: the button, the button mask, the window position
Pointer(button, mask, pos, time) ==
    [button |-> button, mask |-> mask, x |-> pos[1], y |-> pos[2], time |-> time]

ButtonPressEv(buttons, positions, steps) ==
    \E b \in buttons, pos \in positions, dt \in steps :
        LET e == Pointer(b[1], b[2], pos, now + dt)
        IN  Deliver("ButtonPress", e.time, applyButtonPress(Fields, e), e)

ButtonReleaseEv(buttons, positions, steps) ==
    \E b \in buttons, pos \in positions, dt \in steps :
        LET e == Pointer(b[1], b[2], pos, now + dt)
        IN  \E roundedBelow \in IF OnThreshold(buttonPress, e) THEN BOOLEAN ELSE {FALSE} :
                Deliver("ButtonRelease", e.time,
                        applyButtonRelease(Fields, e, roundedBelow),
                        [release |-> e, press |-> buttonPress])

MoveEv(masks, positions, steps) ==
    \E m \in masks, pos \in positions, dt \in steps :
        LET e == Pointer(0, m, pos, now + dt)
        IN  Deliver("Move", e.time, applyMove(Fields, e), e)

ScrollEv(deltas, steps) ==
    \E d \in deltas, dt \in steps :
        LET e == [delta |-> d, time |-> now + dt]
        IN  Deliver("Scroll", e.time, applyScroll(Fields, e), e)

TouchEv(kinds, steps) ==
    \E k \in kinds, dt \in steps : Deliver(k, now + dt, applyTouch(Fields), None)

FrameEv(steps) ==
    \E dt \in steps : Deliver("Frame", now + dt, applyFrame(Fields, now + dt), None)

-----------------------------------------------------------------------------
(* The binding table: the owner binds and looks up on the controller's Settings *)

\* a planar map
Init == \E projection \in Projections : InitWith(projection, FALSE)

BindMods == {0, MODKEY_NumLock + MODKEY_Control}

BindInputs == {DIR_UP, MOUSE_LEFT_BUTTON}

BindTypes == {"ACTION_PAN"}

LookupMods == {MODKEY_Control, MODKEY_NumLock + MODKEY_CapsLock}

QueryMods == BindMods \cup LookupMods \cup {MODKEY_CapsLock + MODKEY_Control}

QueryEvents == {EVENT_SCROLL, EVENT_MULTI_PINCH}

Bind == BindCall(Helpers, BindTypes, BindInputs, BindMods, {<<>>})

Lookup == LookupCall(QueryEvents, BindInputs, LookupMods)

NextBind == Bind \/ Lookup

SpecBind == Init /\ [][NextBind]_vars

\* a modifier mask with both lock bits cleared
NoLocks(m) == ClearBit(ClearBit(m, MODKEY_NumLock), MODKEY_CapsLock)

\* the ways of adding Num Lock and Caps Lock to a mask
LockVariants(m) ==
    {NoLocks(m), SetBit(NoLocks(m), MODKEY_NumLock), SetBit(NoLocks(m), MODKEY_CapsLock),
     SetBit(SetBit(NoLocks(m), MODKEY_NumLock), MODKEY_CapsLock)}

\* C1: for every registered (eventType, inputMask, modifierMask), getAction with Num Lock
\* and/or Caps Lock added to the mask in any combination returns the same Action as
\* the call with both bits cleared.
C1_LockBitsIgnored ==
    \A k \in DOMAIN settings.bindings :
        LET cleared == getAction(settings.bindings, k.event_type, k.input_mask,
                                 NoLocks(k.modkey_mask))
        IN  \A m \in LockVariants(k.modkey_mask) :
                getAction(settings.bindings, k.event_type, k.input_mask, m) = cleared

\* a lookup made with a lock bit set found a bound action
C1_Witness ==
    /\ ev.kind = "getAction"
    /\ HasBit(ev.arg.spec.modkey_mask, MODKEY_CapsLock)
    /\ HasBit(ev.arg.spec.modkey_mask, MODKEY_NumLock)
    /\ ev.arg.result.type # "ACTION_NULL"

\* every triple a lookup can be made with
QuerySpecs ==
    {InputSpec(e, i, m) : e \in QueryEvents, i \in BindInputs \cup {0}, m \in QueryMods}

Lookup1(b, q) == getAction(b, q.event_type, q.input_mask, q.modkey_mask)

\* the triple a lookup of q reaches
Reduced(q) == InputSpec(q.event_type, q.input_mask, NoLocks(q.modkey_mask))

\* C2 as claimed: after bind(s, a), getAction on s's triple returns a, and getAction for
\* every other spec returns what it returned before.
C2_AnySpecBound ==
    [][ev'.kind = "bind" =>
         /\ Lookup1(settings'.bindings, ev'.arg.spec) = ev'.arg.action
         /\ \A q \in QuerySpecs \ {ev'.arg.spec} :
                Lookup1(settings'.bindings, q) = Lookup1(settings.bindings, q)]_vars

\* C2 amended: after bind(s, a), directly or through a helper, the table holds a at s and
\* every other entry is what it was; getAction on s's triple returns a when s's modifier
\* mask has neither Num Lock nor Caps Lock, and getAction on every triple that does not
\* reduce to s with the lock bits removed returns what it returned before.
C2_BindOverwritesOneEntry ==
    [][ev'.kind = "bind" =>
         LET s == ev'.arg.spec
             b == settings.bindings
             b2 == settings'.bindings
         IN  /\ DOMAIN b2 = DOMAIN b \cup {s}
             /\ b2[s] = ev'.arg.action
             /\ \A k \in DOMAIN b \ {s} : b2[k] = b[k]
             /\ NoLocks(s.modkey_mask) = s.modkey_mask => Lookup1(b2, s) = ev'.arg.action
             /\ \A q \in QuerySpecs : Reduced(q) # s => Lookup1(b2, q) = Lookup1(b, q)]_vars

\* a bind has replaced the action of a spec that was bound before
C2_Witness ==
    /\ ev.kind = "bind"
    /\ ev.arg.replaced
    /\ Lookup1(settings.bindings, ev.arg.spec) = ev.arg.action
    /\ ev.arg.action.type = "ACTION_PAN"

\* C3: getAction for a triple whose lookup misses (no binding for it with the lock bits
\* removed) returns the null action, and no lookup changes the binding table.
C3_MissIsNull ==
    [][ev'.kind = "getAction" =>
         /\ settings' = settings
         /\ Reduced(ev'.arg.spec) \notin DOMAIN settings.bindings
                => ev'.arg.result = NullAction /\ ev'.arg.result.type = "ACTION_NULL"]_vars

\* a lookup has missed
C3_Witness ==
    /\ ev.kind = "getAction"
    /\ Reduced(ev.arg.spec) \notin DOMAIN settings.bindings
    /\ ev.arg.result.type = "ACTION_NULL"

-----------------------------------------------------------------------------
(* The distance of the pose and the distance bounds of the Settings *)

DistanceValues == {One, 2 * One, 32 * One}

DistanceSetMinMax == SetMinMaxDistanceCall(DistanceValues)

DistanceSet == SetDistanceCall(DistanceValues \cup {0})

DistanceZoom == ZoomCall({<<0, Dec(5, 10)>>, <<0, -Dec(5, 10)>>})

DistanceApplySettings == ApplySettingsCall({None})

DistanceScroll == ScrollEv({<<0, -1>>, <<0, 1>>}, {0})

DistanceFrame == FrameEv({100000})

NextDistance ==
    \/ DistanceSetMinMax
    \/ DistanceSet
    \/ DistanceZoom
    \/ DistanceApplySettings
    \/ DistanceScroll
    \/ DistanceFrame
    \/ HomeCall

SpecDistance == Init /\ [][NextDistance]_vars

\* C4: in every reachable state the distance of the pose lies in
\* [min-distance, max-distance] of the current Settings
C4_DistanceInRange ==
    /\ settings.min_distance <= state.distance
    /\ state.distance <= settings.max_distance

-----------------------------------------------------------------------------
(* rotate calls from the home pose, under configured pitch bounds *)

\* pitch bounds, in tenths of a degree
PitchValues == {-899, -600, -450, -100}

RotateSetMinMaxPitch == SetMinMaxPitchCall(PitchValues)

RotateRotate ==
    RotateCall({<<0, 0>>, <<Dec(5, 10), Dec(5, 10)>>, <<0, -Dec(5, 10)>>,
                <<Dec(5, 10), -Dec(5, 10)>>})

NextRotate == RotateSetMinMaxPitch \/ RotateRotate \/ HomeCall

SpecRotate == Init /\ [][NextRotate]_vars

\* C5: after a rotate call, the pitch decoded from the local rotation lies in
\* [minPitch, max(maxPitch, -0.1 degrees)]
C5_PitchInBounds ==
    ev.kind = "rotate" =>
        /\ settings.min_pitch <= DecodedPitch(state.localRotation)
        /\ DecodedPitch(state.localRotation) <= Max(settings.max_pitch, -1)

-----------------------------------------------------------------------------
(* The Task slot under scroll events and frame ticks *)

\* a Settings object of the owner: the defaults, with scroll-up bound to a short pan
OwnerSettings ==
    [DefaultSettings EXCEPT
        !.bindings = bindScroll(@, "ACTION_PAN_UP", DIR_UP, 0,
                                <<Opt("OPTION_DURATION", Dec(18, 100)),
                                  Opt("OPTION_SCALE_Y", Dec(5, 10))>>)]

DecayScroll == ScrollEv({<<0, -1>>, <<0, 1>>}, {0})

DecayFrame == FrameEv({60000, 100000})

DecayApplySettings == ApplySettingsCall({None, OwnerSettings})

NextDecay == DecayScroll \/ DecayFrame \/ DecayApplySettings

SpecDecay == Init /\ [][NextDecay]_vars

-----------------------------------------------------------------------------
(* The Task slot under every kind of event *)

LeftButton == <<1, MOUSE_LEFT_BUTTON>>

SlotScroll == ScrollEv({<<0, -1>>, <<1, 0>>}, {0})

SlotKeyPress == KeyPressEv({KEY_Left, KEY_Space, KEY_p}, {0}, {0})

SlotKeyRelease == KeyReleaseEv({0})

SlotFrame == FrameEv({100000, 200000})

SlotButtonPress == ButtonPressEv({LeftButton}, {<<2, 2>>}, {0})

SlotButtonRelease == ButtonReleaseEv({LeftButton}, {<<2, 2>>}, {0})

SlotMove == MoveEv({0, MOUSE_LEFT_BUTTON}, {<<2, 2>>}, {0})

SlotApplySettings == ApplySettingsCall({None})

NextSlot ==
    \/ SlotScroll
    \/ SlotKeyPress
    \/ SlotKeyRelease
    \/ SlotFrame
    \/ SlotButtonPress
    \/ SlotButtonRelease
    \/ SlotMove
    \/ SlotApplySettings
    \/ HomeCall

SpecSlot == Init /\ [][NextSlot]_vars

-----------------------------------------------------------------------------
(* Task decay *)

\* a task was registered, only frame ticks followed, each shorter than the duration, and
\* the time elapsed since is the duration or more
DecayDone ==
    /\ hist.reg # None
    /\ hist.frames
    /\ hist.small
    /\ hist.reg.duration > 0
    /\ (now - hist.reg.time) * One >= hist.reg.duration * 1000000

\* what is left of the duration in the slot
Remaining == IF task.type = "TASK_NONE" THEN 0 ELSE task.duration_s

\* C6 as stated: after the decay the deltas dispatched sum to exactly r x D, and the
\* slot is NONE
C6_DecayExact ==
    DecayDone =>
        /\ task.type = "TASK_NONE"
        /\ hist.applied = <<FMul(hist.reg.rate[1], hist.reg.duration),
                            FMul(hist.reg.rate[2], hist.reg.duration)>>

\* C6, amended: after the decay the deltas dispatched sum to r x D up to the rounding of
\* the products (half a unit in the last place for each tick, for r x D and for r x the
\* remaining duration), and the slot is NONE or holds a remaining duration of at most
\* half a unit in the last place per tick
C6_DecayWithinRounding ==
    DecayDone =>
        /\ 2 * Remaining <= hist.ticks
        /\ \A i \in 1..2 :
              2 * Abs(hist.applied[i] - FMul(hist.reg.rate[i], hist.reg.duration))
                 <= hist.ticks + 2 + 2 * Abs(FMul(hist.reg.rate[i], Remaining))

C6_Witness ==
    /\ DecayDone
    /\ task.type = "TASK_NONE"
    /\ hist.ticks >= 2
    /\ hist.applied # <<0, 0>>

\* C7: a task registered while another was active is the only one in the slot: until
\* the first tick the slot holds its type, rate, duration and start time, afterwards
\* its rate and what is left of its own duration, and the deltas dispatched are its
\* rate times the time spent, which never exceeds its duration
C7_NewTaskOnly ==
    hist.reg # None /\ hist.previous # None /\ hist.frames =>
        /\ hist.ticks = 0 =>
              task = [type |-> hist.reg.type, delta |-> hist.reg.rate,
                      duration_s |-> hist.reg.duration, time_last_service |-> hist.reg.time]
        /\ task.type \in {hist.reg.type, "TASK_NONE"}
        /\ task.delta = hist.reg.rate
        /\ task.duration_s = hist.reg.duration - hist.spent
        /\ hist.spent <= hist.reg.duration
        /\ \A i \in 1..2 :
              2 * Abs(hist.applied[i] - FMul(hist.reg.rate[i], hist.spent)) <= hist.ticks + 1

C7_Witness ==
    /\ hist.reg # None
    /\ hist.previous # None
    /\ hist.previous.delta # hist.reg.rate
    /\ hist.previous.duration_s # hist.reg.duration
    /\ hist.frames
    /\ hist.ticks >= 1
    /\ hist.applied # <<0, 0>>

-----------------------------------------------------------------------------
(* How a task leaves the slot *)

\* a move without buttons that follows a move with a button held
ReleasedOutside ==
    /\ ev'.kind = "Move"
    /\ ev'.arg.mask = 0
    /\ currentMove # None
    /\ currentMove.mask # 0

\* the step leaves type, rate and remaining duration as they are
TaskKept ==
    /\ task'.type = task.type
    /\ task'.delta = task.delta
    /\ task'.duration_s = task.duration_s

\* the step resolves an event to the HOME action
ResolvedHome ==
    /\ ev'.kind \in {"KeyPress", "Scroll"}
    /\ lastAction'.type = "ACTION_HOME"

Directional ==
    {"ACTION_PAN_LEFT", "ACTION_PAN_RIGHT", "ACTION_PAN_UP", "ACTION_PAN_DOWN",
     "ACTION_ROTATE_LEFT", "ACTION_ROTATE_RIGHT", "ACTION_ROTATE_UP", "ACTION_ROTATE_DOWN",
     "ACTION_ZOOM_IN", "ACTION_ZOOM_OUT"}

\* the task type of an action type
TaskOf(type) ==
    IF type \in {"ACTION_PAN_LEFT", "ACTION_PAN_RIGHT", "ACTION_PAN_UP", "ACTION_PAN_DOWN"}
    THEN "TASK_PAN"
    ELSE IF type \in {"ACTION_ZOOM_IN", "ACTION_ZOOM_OUT"} THEN "TASK_ZOOM"
    ELSE "TASK_ROTATE"

\* C9: after a key press that resolves to a directional pan, rotate or zoom action,
\* with non-zero keyboard sensitivity, the slot holds a task of the matching type with
\* a non-zero rate and a positive duration
C9_KeyPressRegistersKick ==
    ev.kind = "KeyPress" /\ lastAction.type \in Directional /\ settings.keyboard_sens # 0 =>
        /\ task.type = TaskOf(lastAction.type)
        /\ task.delta # <<0, 0>>
        /\ task.duration_s > 0

-----------------------------------------------------------------------------
(* Scroll-up zoom, end to end *)

\* the last event resolved to ZOOM_IN without options, at modifier 0, with zoom-to-mouse
\* off and a perspective projection
ScrollZoomIn ==
    /\ lastAction = Action("ACTION_ZOOM_IN", <<>>)
    /\ HeldModifier(Fields) = 0
    /\ settings.scroll_sens # 0
    /\ ~settings.zoomToMouse
    /\ camera.projectionMatrix.kind # "Orthographic"

\* one frame tick of 0.1 s has followed the registration, and nothing else
OneTickAfter ==
    /\ ev.kind = "Frame"
    /\ hist.reg # None
    /\ hist.frames
    /\ hist.ticks = 1
    /\ now - hist.reg.time = 100000

\* C10: a scroll event with delta.y = -1 that resolves to ZOOM_IN registers a ZOOM task
\* of non-zero rate and duration 0.2 s, and after one frame tick of 0.1 s the distance is
\* smaller than before the scroll, when it was above min-distance
C10_ScrollUpZoomsIn ==
    /\ ev.kind = "Scroll" /\ ev.arg.delta = <<0, -1>> /\ ScrollZoomIn =>
          /\ task.type = "TASK_ZOOM"
          /\ task.delta # <<0, 0>>
          /\ task.duration_s = Dec(2, 10)
          /\ task.time_last_service = ev.time
    /\ OneTickAfter /\ ScrollZoomIn /\ hist.distance > settings.min_distance =>
          state.distance < hist.distance

C10_Witness ==
    /\ OneTickAfter
    /\ ScrollZoomIn
    /\ hist.reg.type = "TASK_ZOOM"
    /\ hist.distance > settings.min_distance
    /\ state.distance < hist.distance
    /\ task.type = "TASK_ZOOM"

-----------------------------------------------------------------------------
(* Clicks: a button press and a button release *)

ClickPositions == {<<2, 2>>, <<3, 2>>, <<3, 3>>, <<4, 2>>}

ClickPress == ButtonPressEv({LeftButton}, ClickPositions, {0})

ClickRelease == ButtonReleaseEv({LeftButton}, ClickPositions, {0, 500, 1000, 200000, 400000})

ClickMove == MoveEv({0, MOUSE_LEFT_BUTTON}, {<<2, 2>>}, {0})

NextClick == ClickPress \/ ClickRelease \/ ClickMove

SpecClick == Init /\ [][NextClick]_vars

\* the latest event is a button release that found a press record
Paired == ev.kind = "ButtonRelease" /\ ev.arg.press # None

\* the pixel distance between press and release, squared
PairDistance2 ==
    (ev.arg.release.x - ev.arg.press.x) * (ev.arg.release.x - ev.arg.press.x)
    + (ev.arg.release.y - ev.arg.press.y) * (ev.arg.release.y - ev.arg.press.y)

\* the time between press and release, in microseconds
PairElapsed == ev.arg.release.time - ev.arg.press.time

\* the device-normalized displacement is less than elapsed time x 0.1, exactly:
\* 2 sqrt(d2) / height < (us / 1000000) x 0.1
DisplacementBelow(d2, us) ==
    SqrtOrder(d2, IF (us * RenderHeight) % 1000 = 0 THEN (us * RenderHeight) \div 1000
                  ELSE (us * RenderHeight) \div 1000 + 1) = "LT"

\* the same, with "at most" for "less than"
DisplacementAtMost(d2, us) ==
    \/ DisplacementBelow(d2, us)
    \/ /\ (us * RenderHeight) % 1000 = 0
       /\ SqrtOrder(d2, (us * RenderHeight) \div 1000) = "EQ"

\* C11: a press/release pair with zero displacement and an elapsed time above zero is
\* classified as a click
C11_ZeroDisplacementIsClick ==
    Paired /\ PairDistance2 = 0 /\ PairElapsed > 0 => ev.click

\* C12 as stated: a pair whose displacement is at least elapsed time x 0.1 is not a
\* click, and a release without a press record is not a click
C12_AtThresholdNoClick ==
    ev.kind = "ButtonRelease" =>
        /\ ev.arg.press = None => ~ev.click
        /\ ev.arg.press # None /\ ~DisplacementBelow(PairDistance2, PairElapsed) => ~ev.click

\* C12, amended: a pair whose displacement is above elapsed time x 0.1 is not a click,
\* and a release without a press record is not a click
C12_AboveThresholdNoClick ==
    ev.kind = "ButtonRelease" =>
        /\ ev.arg.press = None => ~ev.click
        /\ ev.arg.press # None /\ ~DisplacementAtMost(PairDistance2, PairElapsed) => ~ev.click

\* a pair with a displacement above the threshold and an elapsed time above zero
C12_Witness ==
    /\ Paired
    /\ PairElapsed > 0
    /\ ~DisplacementAtMost(PairDistance2, PairElapsed)
    /\ ~ev.click

-----------------------------------------------------------------------------
(* The bounds the Settings store *)

\* arguments of setMinMaxPitch, in tenths of a degree
PitchArguments == {-950, -920, -899, -450, 0, 890, 950}

PitchSetMinMax == SetMinMaxPitchCall(PitchArguments)

NextPitch == PitchSetMinMax

SpecPitch == Init /\ [][NextPitch]_vars

\* C13: the stored pitch bounds satisfy -89.9 <= min-pitch <= max-pitch <= 89 degrees
C13_PitchBoundsOrdered ==
    /\ -899 <= settings.min_pitch
    /\ settings.min_pitch <= settings.max_pitch
    /\ settings.max_pitch <= 890

\* C14: the stored distance bounds satisfy min-distance <= max-distance
C14_DistanceBoundsOrdered == settings.min_distance <= settings.max_distance

-----------------------------------------------------------------------------
(* Events that change little or nothing *)

\* C15: a key release clears the key tracking and changes nothing else: the task, the
\* pose, the continuous-gesture state, the pointer tracking, the last action, the
\* settings and the camera stay as they are
C15_KeyReleaseClearsKeyOnly ==
    [][ev'.kind = "KeyRelease" =>
          /\ keyPress' = None
          /\ UNCHANGED <<task, state, continuous, continuousDelta, continuousAction,
                         lastContinuousTime, buttonPress, buttonRelease, currentMove,
                         previousMove, lastAction, settings, camera>>]_vars

\* a key was held and a task active when the key was released
C15_Witness ==
    /\ ev.kind = "KeyRelease"
    /\ ev.arg.keyPress # None
    /\ keyPress = None
    /\ task.type # "TASK_NONE"
    /\ task.delta # <<0, 0>>

\* the Settings in force after applySettings(supplied)
Installed(supplied) == IF supplied # None THEN supplied ELSE DefaultSettings

\* C16: after applySettings, with a Settings object or with none, the task slot is NONE
\* whatever task was pending and the Settings in force are the supplied ones, or the
\* defaults; no event replaces them, and a scroll resolves its action in the binding
\* table of the Settings in force
C16_ReplacementResetsTaskAndTable ==
    [][/\ ev'.kind = "applySettings" =>
            /\ task'.type = "TASK_NONE"
            /\ settings' = Installed(ev'.arg.settings)
       /\ ev'.kind # "applySettings" => settings' = settings
       /\ ev'.kind = "Scroll" =>
            lastAction' = getAction(settings.bindings, EVENT_SCROLL,
                                    ScrollDir(ev'.arg.delta), 0)]_vars

\* a task was pending, with duration left, when the owner's Settings replaced the defaults
C16_Witness ==
    /\ ev.kind = "applySettings"
    /\ ev.arg.settings = OwnerSettings
    /\ settings = OwnerSettings
    /\ hist.reg # None
    /\ task.duration_s > 0
    /\ task.type = "TASK_NONE"

-----------------------------------------------------------------------------
(* home(), called by the owner or resolved from a key press *)

HomeSetMinMax == SetMinMaxDistanceCall({One, 2 * One, 32 * One})

HomeRotate == RotateCall({<<Dec(5, 10), Dec(5, 10)>>})

HomeScroll == ScrollEv({<<0, -1>>}, {0})

HomeKeyPress == KeyPressEv({KEY_Space, KEY_Left}, {0}, {0})

NextHome ==
    \/ HomeSetMinMax
    \/ HomeRotate
    \/ HomeScroll
    \/ HomeKeyPress
    \/ HomeCall

SpecHome == Init /\ [][NextHome]_vars

\* home() has just run, called by the owner or resolved from an event
AtHome ==
    \/ ev.kind = "home"
    \/ ev.kind \in {"KeyPress", "Scroll"} /\ lastAction.type = "ACTION_HOME"

\* no task, continuous gesture or button record is active
TransientsCleared ==
    /\ task.type = "TASK_NONE"
    /\ ~continuous
    /\ buttonPress = None
    /\ buttonRelease = None

\* C17 as stated: after home(), called directly or through a key bound to HOME, the
\* local rotation is identity, the center is the stored home point, the distance is the
\* stored home distance, and no task, continuous gesture or button record is active
C17_HomeRestoresStoredPose ==
    AtHome =>
        /\ state.localRotation = IdentityRotation
        /\ state.center = HomePosition
        /\ state.distance = HomeDistance
        /\ TransientsCleared

\* C17, amended: after home() the local rotation is identity, the center is the stored
\* home point, the distance is the stored home distance clamped to the distance bounds
\* of the Settings, and no task, continuous gesture or button record is active
C17_HomeClampsDistance ==
    AtHome =>
        /\ state.localRotation = IdentityRotation
        /\ state.center = HomePosition
        /\ state.distance = clamp(HomeDistance, settings.min_distance, settings.max_distance)
        /\ TransientsCleared

\* a key bound to HOME was pressed while a task was pending and the distance bounds
\* excluded the home distance
C17_Witness ==
    /\ ev.kind = "KeyPress"
    /\ lastAction.type = "ACTION_HOME"
    /\ hist.reg # None
    /\ task.duration_s > 0
    /\ task.type = "TASK_NONE"
    /\ state.distance # HomeDistance

-----------------------------------------------------------------------------
(* Touch events *)

TouchKinds == {"TouchDown", "TouchMove", "TouchUp"}

TouchTouch == TouchEv(TouchKinds, {0, 1000})

TouchScroll == ScrollEv({<<0, -1>>}, {0})

TouchKeyPress == KeyPressEv({KEY_Left}, {0}, {0})

TouchButtonPress == ButtonPressEv({LeftButton}, {<<2, 2>>}, {0})

TouchFrame == FrameEv({100000})

NextTouch == TouchTouch \/ TouchScroll \/ TouchKeyPress \/ TouchButtonPress \/ TouchFrame

SpecTouch == Init /\ [][NextTouch]_vars

\* C18: a touch-down, touch-move or touch-up event leaves the pose, the task slot, the
\* continuous-gesture state, every event-tracking field and the Settings unchanged
C18_TouchChangesNothing ==
    [][ev'.kind \in TouchKinds =>
          UNCHANGED <<state, task, continuous, continuousDelta, continuousAction,
                      lastContinuousTime, keyPress, buttonPress, buttonRelease,
                      currentMove, previousMove, lastAction, settings, camera>>]_vars

\* a touch event arrived while a task was active
C18_Witness ==
    /\ ev.kind \in TouchKinds
    /\ task.type # "TASK_NONE"
    /\ task.duration_s > 0
    /\ hist.reg # None

-----------------------------------------------------------------------------
(* The handled flag *)

\* C19: an event the controller consumes is marked handled: a key press resolved to an
\* action, a button press, a button release, a drag move, a scroll resolved to an
\* action, and every event that registers a task
C19_ConsumedIsHandled ==
    (\/ ev.kind = "KeyPress" /\ lastAction.type # "ACTION_NULL"
     \/ ev.kind \in {"ButtonPress", "ButtonRelease"}
     \/ ev.kind = "Move" /\ ev.arg.mask # 0
     \/ ev.kind = "Scroll" /\ lastAction.type # "ACTION_NULL"
     \/ ev.kind \in {"KeyPress", "ButtonPress", "ButtonRelease", "Move", "Scroll"}
            /\ ev.registered)
        => ev.handled

-----------------------------------------------------------------------------
(* Events without a binding *)

MissKeyPress == KeyPressEv({KEY_Left}, {0, MODKEY_Shift}, {0})

MissScroll == ScrollEv({<<0, -1>>, <<1, 0>>}, {0})

MissMove ==
    MoveEv({MOUSE_LEFT_BUTTON, MOUSE_MIDDLE_BUTTON + MOUSE_RIGHT_BUTTON},
           {<<2, 2>>, <<3, 3>>}, {0})

MissFrame == FrameEv({100000})

NextMiss == MissKeyPress \/ MissScroll \/ MissMove \/ MissFrame

SpecMiss == Init /\ [][NextMiss]_vars

\* the step delivers a key press, a scroll or a drag move that has no binding in the
\* Settings in force
LookupMisses ==
    LET held == IF keyPress # None THEN keyPress.keyModifier ELSE 0
    IN  \/ /\ ev'.kind = "KeyPress"
           /\ getAction(settings.bindings, EVENT_KEY_DOWN, ev'.arg.keyBase,
                        ev'.arg.keyModifier) = NullAction
        \/ /\ ev'.kind = "Scroll"
           /\ getAction(settings.bindings, EVENT_SCROLL, ScrollDir(ev'.arg.delta), held)
                = NullAction
        \/ /\ ev'.kind = "Move"
           /\ ev'.arg.mask # 0
           /\ getAction(settings.bindings, EVENT_MOUSE_DRAG, ev'.arg.mask, held)
                = NullAction

\* C20: a key press, scroll or drag move whose binding lookup misses resolves to the
\* null action and leaves the pose (center, center rotation, local rotation, distance)
\* and the task slot unchanged
C20_MissLeavesPoseAndTask ==
    [][LookupMisses => lastAction' = NullAction /\ UNCHANGED <<state, task>>]_vars

\* a scroll without a binding arrived while a task was active
C20_Witness ==
    /\ ev.kind = "Scroll"
    /\ ScrollDir(ev.arg.delta) = DIR_RIGHT
    /\ lastAction = NullAction
    /\ hist.reg # None
    /\ task.type # "TASK_NONE"
    /\ task.duration_s > 0

-----------------------------------------------------------------------------
(* Recentering: what the scene, the geospatial service and the view matrix answer *)

\* the eye of the view matrix: above the plane, below it
RecenterEyes == {<<One, 0, 3 * One>>, <<One, 0, -3 * One>>}

\* its look vector: down, up, level, slanted down, slanted up
RecenterLooks ==
    {<<0, 0, -One>>, <<0, 0, One>>, <<One, 0, 0>>,
     <<Dec(6, 10), 0, -Dec(8, 10)>>, <<Dec(6, 10), 0, Dec(8, 10)>>}

\* points of the scene and of the ellipsoid
RecenterHits == {None, <<2 * One, One>>}

RecenterCall ==
    \E eye \in RecenterEyes, look \in RecenterLooks,
       sceneHit \in RecenterHits, ellipsoidHit \in RecenterHits :
        OwnerCall("recalculateCenterFromLookVector",
                  recalculateCenterFromLookVector(Fields, geocentric, eye, look, sceneHit,
                                                  ellipsoidHit),
                  [eye |-> eye, look |-> look, sceneHit |-> sceneHit,
                   ellipsoidHit |-> ellipsoidHit,
                   segment |-> LookSegment(Fields, eye, look)])

RecenterSetDistance == SetDistanceCall({2 * One})

InitRecenter == \E projection \in Projections, geo \in BOOLEAN : InitWith(projection, geo)

NextRecenter == RecenterCall \/ RecenterSetDistance \/ HomeCall

SpecRecenter == InitRecenter /\ [][NextRecenter]_vars

\* the call is made on a planar map, the scene query misses, and the look ray is
\* parallel to the z = 0 plane or the plane lies behind the camera
Degenerate(arg) ==
    /\ ~geocentric
    /\ arg.sceneHit = None
    /\ \/ arg.look[3] = 0
       \/ arg.eye[3] > 0 /\ arg.look[3] > 0
       \/ arg.eye[3] < 0 /\ arg.look[3] < 0

\* C21: on a planar map, when the scene query misses and the look ray is parallel to
\* the z = 0 plane or the plane lies behind the camera, recalculateCenterFromLookVector
\* returns false and leaves center, center rotation, local rotation and distance
\* unchanged
C21_DegenerateRayLeavesPose ==
    [][ev'.kind = "recalculateCenterFromLookVector" /\ Degenerate(ev'.arg) =>
          /\ ~ev'.handled
          /\ state' = state]_vars

\* the camera is above the plane and looks up, away from it
C21_Witness ==
    /\ ev.kind = "recalculateCenterFromLookVector"
    /\ Degenerate(ev.arg)
    /\ ev.arg.eye[3] > 0
    /\ ev.arg.look[3] > 0
    /\ ~ev.handled
    /\ state.center = HomePosition

-----------------------------------------------------------------------------
(* Azimuth normalization *)

\* input angles: the multiples of 30 degrees from -4 pi to 4 pi, and their neighbours
AzimInputs ==
    {k * 300 + d : k \in -24..24, d \in {-1, 0, 1}}

NormalizeCall ==
    \E input \in AzimInputs :
        OwnerCall("normalizeAzimRad", Fields,
                  [input |-> input, output |-> normalizeAzimRad(input)])

NextAzim == NormalizeCall

SpecAzim == Init /\ [][NextAzim]_vars

\* C22: normalizeAzimRad maps every input to (-pi, pi]; 3 pi, -3 pi and -pi yield pi
C22_AzimHalfOpen ==
    ev.kind = "normalizeAzimRad" =>
        /\ -Pi < ev.arg.output
        /\ ev.arg.output <= Pi
        /\ ev.arg.input \in {3 * Pi, -3 * Pi, -Pi} => ev.arg.output = Pi

-----------------------------------------------------------------------------
(* Viewpoint transitions *)

\* target viewpoints
ViewpointTargets ==
    {[point |-> <<3 * One, 4 * One>>, heading |-> Some(2700), pitch |-> Some(-450),
      range |-> Some(2 * One)],
     [point |-> <<3 * One, 4 * One>>, heading |-> None, pitch |-> None, range |-> None]}

\* durations of a transition, in seconds
ViewpointDurations == {0, Dec(125, 1000), One}

\* arc heights
ViewpointArcs == {0, One}

\* setViewpoint(vp, duration_seconds)
SetViewpointCall ==
    \E vp \in ViewpointTargets, d \in ViewpointDurations, a \in ViewpointArcs, g \in BOOLEAN :
        LET c == setViewpoint(Fields, vp, d, to_seconds(now), a, g)
        IN  OwnerCall("setViewpoint", c, [vp |-> vp, duration |-> d, progress |-> c.progress])

ViewpointPan == PanCall({<<One, One>>})

\* setViewpointFrame(time_s), called while a transition is in progress
ViewpointFrameCall ==
    \E dt \in {4000, 204000} :
        LET c == setViewpointFrame(Fields, to_seconds(now + dt))
        IN  /\ isSettingViewpoint(Fields)
            /\ now + dt <= MaxTime
            /\ nevents < MaxFrames
            /\ nevents' = nevents + 1
            /\ Commit(Noted("setViewpointFrame", c))
            /\ ev' = Event("setViewpointFrame", now + dt, c,
                           [progress |-> c.progress, interpolated |-> c.interpolated,
                            before |-> setVP, time_s |-> to_seconds(now + dt)])
            /\ now' = now + dt
            /\ UNCHANGED ncalls

NextViewpoint == SetViewpointCall \/ ViewpointPan \/ ViewpointFrameCall

SpecViewpoint == Init /\ [][NextViewpoint]_vars

\* the step is a frame of a transition whose start time has been recorded
TransitionFrame == ev'.kind = "setViewpointFrame" /\ ev'.arg.interpolated

Near(p, q) ==
    LET tolerance == 1 + (Abs(q[1]) + Abs(q[2])) \div One
    IN  Abs(p[1] - q[1]) <= tolerance /\ Abs(p[2] - q[2]) <= tolerance

\* the position the step leaves is the point: exactly under lerp, up to rounding
\* under nlerp
Reaches(point) ==
    IF setVP.geodetic THEN Near(state'.center, point) ELSE state'.center = point

-----------------------------------------------------------------------------
(* Frame ticks and the task *)

\* C24: a frame tick (no continuous gesture active) makes a pan, rotate or zoom call only
\* when a task is active, the tick's time stamp exceeds the task's last service time and
\* the task's remaining duration is above zero, so that dt = min(elapsed, remaining) > 0
C24_TickDispatchesOnlyPositiveDt ==
    [][(ev'.kind = "Frame" /\ ~continuous /\ ev'.calls # <<>>)
         => /\ task.type # "TASK_NONE"
            /\ ev'.time > task.time_last_service
            /\ Min(to_seconds(ev'.time - task.time_last_service), task.duration_s) > 0]_vars

-----------------------------------------------------------------------------
(* Expiry of the task: the host delivers a frame tick for every frame *)

\* the latest time of a registration that leaves room for its ticks before MaxTime
LastRegistration == MaxTime - 240000

\* the intervals between frames
FrameSteps == {40000, 100000}

ExpireScroll ==
    now + 20000 <= LastRegistration /\ ScrollEv({<<0, -1>>, <<1, 0>>}, {0, 20000})

ExpireKeyPress == now <= LastRegistration /\ KeyPressEv({KEY_Left}, {0}, {0})

ExpireFrame == FrameEv(FrameSteps)

NextExpire == ExpireScroll \/ ExpireKeyPress \/ ExpireFrame

\* the time advances by a frame interval: in NextExpire, the steps of ExpireFrame and no
\* others, and enabled exactly when ExpireFrame is
FrameAdvance == \E dt \in FrameSteps : now + dt <= MaxTime /\ now' = now + dt

\* the host delivers a frame tick for every frame it renders
SpecExpire == Init /\ [][NextExpire]_vars /\ WF_now(FrameAdvance)

\* a task was registered and only frame ticks followed
TicksOnly == hist.reg # None /\ hist.frames /\ ev.kind = "Frame"

\* C25 as stated: with frame ticks only after a registration with duration D, the task
\* is NONE after every tick at which the time elapsed since the registration is D or more
C25_ExpiresAtCumulativeDuration ==
    TicksOnly /\ (now - hist.reg.time) * One >= hist.reg.duration * 1000000
        => task.type = "TASK_NONE"

\* C25, amended: every active task eventually reaches NONE; a tick whose elapsed time
\* since the last service is the remaining duration or more leaves NONE; with frame ticks
\* only, the task is NONE once the elapsed time exceeds D by the rounding of the ticks
\* (half a unit in the last place for each); and NONE stays until a new registration
C25_ExpiresWithinRounding ==
    /\ (task.type # "TASK_NONE") ~> (task.type = "TASK_NONE")
    /\ [][/\ (/\ ev'.kind = "Frame"
              /\ task.type # "TASK_NONE"
              /\ ev'.time > task.time_last_service
              /\ to_seconds(ev'.time - task.time_last_service) >= task.duration_s)
                => task'.type = "TASK_NONE"
          /\ (task.type = "TASK_NONE" /\ ~ev'.registered) => task'.type = "TASK_NONE"]_vars
    /\ [](TicksOnly /\ 2 * (now - hist.reg.time) * One
                          >= (2 * hist.reg.duration + hist.ticks) * 1000000
            => task.type = "TASK_NONE")

\* a task of duration 0.2 s has expired on the tick after the one at which the elapsed
\* time reached the duration
C25_Witness ==
    /\ TicksOnly
    /\ hist.reg.duration > 0
    /\ now - hist.reg.time = 240000
    /\ hist.ticks = 6
    /\ task.type = "TASK_NONE"

-----------------------------------------------------------------------------
(* Drag gestures: moves with and without a button held, presses, releases, frame ticks *)

RightButton == <<3, MOUSE_RIGHT_BUTTON>>

\* an event of a gesture sequence, with its time stamp
Gesture(kind, time, c, arg) ==
    /\ time <= MaxTime
    /\ nevents < MaxGesture
    /\ nevents' = nevents + 1
    /\ Commit(Noted(kind, c))
    /\ ev' = Event(kind, time, c, [e |-> arg, before |-> Fields,
                                    previous |-> [kind |-> ev.kind, click |-> ev.click]])
    /\ now' = time
    /\ UNCHANGED ncalls

DragMove ==
    \E m \in {0, MOUSE_LEFT_BUTTON, MOUSE_RIGHT_BUTTON}, pos \in {<<10, 10>>, <<50, 70>>} :
        LET e == Pointer(0, m, pos, now + 20000)
        IN  Gesture("Move", e.time, applyMove(Fields, e), e)

DragButtonPress ==
    LET e == Pointer(RightButton[1], RightButton[2], <<10, 10>>, now)
    IN  Gesture("ButtonPress", e.time, applyButtonPress(Fields, e), e)

DragButtonRelease ==
    \E pos \in {<<10, 10>>, <<50, 70>>} :
        LET e == Pointer(RightButton[1], RightButton[2], pos, now + 20000)
        IN  Gesture("ButtonRelease", e.time, applyButtonRelease(Fields, e, FALSE), e)

DragKeyPress ==
    LET e == [keyBase |-> KEY_Down, keyModifier |-> 0, time |-> now]
    IN  Gesture("KeyPress", e.time, applyKeyPress(Fields, e), e)

DragScroll ==
    LET e == [delta |-> <<0, -1>>, time |-> now]
    IN  Gesture("Scroll", e.time, applyScroll(Fields, e), e)

DragFrame ==
    Gesture("Frame", now + 100000, applyFrame(Fields, now + 100000), [time |-> now + 100000])

NextDrag ==
    \/ DragMove
    \/ DragButtonPress
    \/ DragButtonRelease
    \/ DragKeyPress
    \/ DragScroll
    \/ DragFrame

SpecDrag == Init /\ [][NextDrag]_vars

\* C27: whenever a continuous gesture starts, the accumulator after the starting event
\* holds what that event alone adds to a zero accumulator, whatever ended the previous
\* continuous gesture and whether or not a frame tick came in between
C27_GestureStartsFromZero ==
    [][(~continuous /\ continuous')
         => continuousDelta' =
              applyMove([Fields EXCEPT !.continuousDelta = <<0, 0>>], ev'.arg.e).continuousDelta
       ]_vars

\* the displacement between two pointer events as handleMouseAction scales it: by the
\* mouse sensitivity and by the options of the action
DragDelta(c, action, from, to) ==
    LET raw == <<ndc(to)[1] - ndc(from)[1], -(ndc(to)[2] - ndc(from)[2])>>
    IN  applyOptionsToDeltas(action, <<FMul(raw[1], c.settings.mouse_sens),
                                       FMul(raw[2], c.settings.mouse_sens)>>)

\* the last event was a move with a button held, displaced from the move before it
DraggedBy(e, before) ==
    /\ e.mask # 0
    /\ before.currentMove # None
    /\ ndc(before.currentMove) # ndc(e)

\* C28: a move with a button held and a displacement, whose drag action is continuous,
\* adds the scaled delta times 0.01 to the accumulator, makes no motion call and leaves
\* the pose as it was; when the action is not continuous it makes the motion call of
\* the action with the scaled delta in the same event, and leaves the accumulator as it was
C28_DragAccumulatesOrApplies ==
    ev.kind = "Move" /\ DraggedBy(ev.arg.e, ev.arg.before) =>
        LET before == ev.arg.before
            d == DragDelta(before, lastAction, before.currentMove, ev.arg.e)
        IN  IF getBoolOption(lastAction, "OPTION_CONTINUOUS", FALSE)
            THEN /\ continuousDelta = <<before.continuousDelta[1] + FMul(d[1], Dec(1, 100)),
                                        before.continuousDelta[2] + FMul(d[2], Dec(1, 100))>>
                 /\ ev.calls = <<>>
                 /\ state = before.state
            ELSE /\ continuousDelta = before.continuousDelta
                 /\ lastAction.type = "ACTION_PAN" =>
                        /\ ev.calls = << <<"pan", d[1], d[2]>> >>
                        /\ state = pan(before, d[1], d[2]).state
                        /\ state # before.state

\* a right-button drag has added to the accumulator, after a left-button drag had panned
C28_Witness ==
    /\ ev.kind = "Move"
    /\ DraggedBy(ev.arg.e, ev.arg.before)
    /\ ev.arg.e.mask = MOUSE_RIGHT_BUTTON
    /\ continuous
    /\ continuousDelta # ev.arg.before.continuousDelta
    /\ state.center # Constructed(camera.projectionMatrix).state.center

\* the motion call of a movement action or of a task
MotionName(type) ==
    IF type \in {"ACTION_PAN", "TASK_PAN"} THEN "pan"
    ELSE IF type \in {"ACTION_ROTATE", "TASK_ROTATE"} THEN "rotate"
    ELSE "zoom"

\* the call a frame tick makes for the continuous action: the accumulated delta times
\* the seconds elapsed times 60
ContinuousCalls(before, time) ==
    IF before.continuous /\ before.continuousAction.type \in {"ACTION_PAN", "ACTION_ZOOM"}
    THEN LET f == FMul(to_seconds(time - before.lastContinuousTime), 60 * One)
         IN  << <<MotionName(before.continuousAction.type),
                  FMul(before.continuousDelta[1], f), FMul(before.continuousDelta[2], f)>> >>
    ELSE <<>>

\* the call a frame tick makes for the task
TaskCalls(before, time) ==
    IF before.task.type # "TASK_NONE" /\ to_seconds(time - before.task.time_last_service) > 0
    THEN LET dt == Min(to_seconds(time - before.task.time_last_service),
                       before.task.duration_s)
         IN  << <<MotionName(before.task.type),
                  FMul(before.task.delta[1], dt), FMul(before.task.delta[2], dt)>> >>
    ELSE <<>>

\* C29: a frame tick first makes the call of the continuous action, when one is active,
\* with the accumulated delta times the seconds elapsed times 60, and zeroes the
\* accumulator when none is; then it makes the call of the task; then it writes the view
\* matrix from the resulting pose. The elapsed time runs from the previous tick of the
\* gesture, or from the move that started it
C29_FrameOrder ==
    /\ ev.kind = "Frame" =>
          /\ ev.calls = ContinuousCalls(ev.arg.before, ev.time) \o TaskCalls(ev.arg.before, ev.time)
          /\ ~ev.arg.before.continuous => continuousDelta = <<0, 0>>
          /\ camera.viewMatrix = ViewMatrix(state)
          /\ continuous => lastContinuousTime = ev.time
    /\ ev.kind = "Move" /\ continuous /\ ~ev.arg.before.continuous =>
          lastContinuousTime = ev.time
    /\ ev.kind # "Frame" /\ continuous /\ ev.arg.before.continuous =>
          lastContinuousTime = ev.arg.before.lastContinuousTime

\* a tick with a continuous zoom and a zoom task, 0.12 s after the move that started the
\* gesture and 0.1 s after the latest event
C29_Witness ==
    /\ ev.kind = "Frame"
    /\ ev.arg.before.continuous
    /\ ev.arg.before.continuousDelta # <<0, 0>>
    /\ ev.arg.before.task.type # "TASK_NONE"
    /\ Len(ev.calls) = 2
    /\ ev.calls[1] # ev.calls[2]
    /\ ev.time - ev.arg.before.lastContinuousTime = 120000
    /\ ev.time - ev.arg.before.currentMove.time = 100000
    /\ camera.viewMatrix # ev.arg.before.camera.viewMatrix

\* C30: a move without a button that follows a move with a button held leaves no
\* continuous gesture and no button-press, button-release or key-press record; a move
\* without a button that follows another such move, or no move at all, leaves all of these,
\* the task and the pose as they were
C30_ReleaseOutsideClears ==
    ev.kind = "Move" /\ ev.arg.e.mask = 0 =>
        LET before == ev.arg.before
        IN  IF before.currentMove # None /\ before.currentMove.mask # 0
            THEN /\ ~continuous
                 /\ buttonPress = None
                 /\ buttonRelease = None
                 /\ keyPress = None
            ELSE /\ continuous = before.continuous
                 /\ buttonPress = before.buttonPress
                 /\ buttonRelease = before.buttonRelease
                 /\ keyPress = before.keyPress
                 /\ task = before.task
                 /\ state = before.state

\* a move without a button has ended a continuous drag that had a button press and a key
\* press on record
C30_Witness ==
    /\ ev.kind = "Move"
    /\ ev.arg.e.mask = 0
    /\ ev.arg.before.currentMove # None
    /\ ev.arg.before.currentMove.mask = MOUSE_RIGHT_BUTTON
    /\ ev.arg.before.continuous
    /\ ev.arg.before.buttonPress # None
    /\ ev.arg.before.keyPress # None
    /\ ~continuous
    /\ keyPress = None

-----------------------------------------------------------------------------
(* Button releases *)

\* C31: after a button release, click or not, no button-press and no button-release
\* record remains; a release that finds no press on record, and so any release that
\* directly follows another release, is not classified as a click
C31_ReleaseClearsRecords ==
    ev.kind = "ButtonRelease" =>
        /\ buttonPress = None
        /\ buttonRelease = None
        /\ ev.arg.before.buttonPress = None => ~ev.click
        /\ ev.arg.previous.kind = "ButtonRelease" => ~ev.click

\* a release at the place of the press was a click, and the release that followed it
\* at the same place was not
C31_Witness ==
    /\ ev.kind = "ButtonRelease"
    /\ ev.arg.previous.kind = "ButtonRelease"
    /\ ev.arg.previous.click
    /\ ev.arg.e.x = 10
    /\ ~ev.click

-----------------------------------------------------------------------------
(* The pitch delta of rotate *)

\* C32: rotate(dx, dy) leaves the pitch as it was when pitch + dy lies outside the range
\* rotate allows, and adds dy in full otherwise; it turns the azimuth by dx in both
\* cases and leaves the center, its frame and the distance as they were
C32_PitchAllOrNothing ==
    [][ev'.kind = "rotate" =>
         LET dx == RadToDeci(ev'.arg.delta[1])
             dy == RadToDeci(ev'.arg.delta[2])
             old == state.localRotation
             new == state'.localRotation
             minp == Min(settings.min_pitch, -899)
             maxp == Max(settings.max_pitch, -1)
         IN  /\ new.pitch = IF old.pitch + dy > maxp \/ old.pitch + dy < minp
                            THEN old.pitch ELSE old.pitch + dy
             /\ new.azim = WrapAzim(old.azim - dx)
             /\ state'.center = state.center
             /\ state'.centerRotation = state.centerRotation
             /\ state'.distance = state.distance]_vars

\* from the home pose, a rotate with a downward pitch delta has turned the azimuth and
\* left the pitch where it was
C32_Witness ==
    /\ ev.kind = "rotate"
    /\ ev.arg.delta = <<Dec(5, 10), -Dec(5, 10)>>
    /\ ncalls = 1
    /\ state.localRotation.pitch = IdentityRotation.pitch
    /\ state.localRotation.azim # IdentityRotation.azim

-----------------------------------------------------------------------------
(* Scroll events under bindings of the owner *)

ScrollDeltas == {<<x, y>> : x \in {-1, 0, 1}, y \in {-1, 0, 1}}

ScrollBind ==
    BindCall({"bindScroll"}, {"ACTION_HOME", "ACTION_ROTATE_LEFT"}, {DIR_LEFT, DIR_UP}, {0},
             {<<>>})

ScrollPan == PanCall({<<One, One>>})

ScrollScroll == ScrollEv(ScrollDeltas, {0})

NextScroll == ScrollBind \/ ScrollPan \/ ScrollScroll

SpecScroll == Init /\ [][NextScroll]_vars

\* the direction of a scroll delta: horizontal before vertical
HorizontalFirst(delta) ==
    CASE delta[1] < 0 -> DIR_LEFT
      [] delta[1] > 0 -> DIR_RIGHT
      [] delta[1] = 0 /\ delta[2] < 0 -> DIR_UP
      [] delta[1] = 0 /\ delta[2] > 0 -> DIR_DOWN
      [] OTHER -> DIR_NA

\* the action a scroll event resolves to is the one bound to its direction
ResolvedByDirection ==
    ev'.kind = "Scroll" =>
        lastAction' = getAction(settings.bindings, EVENT_SCROLL,
                                HorizontalFirst(ev'.arg.delta), HeldModifier(Fields))

\* C33 as stated: a scroll event resolves its direction horizontal first, and never
\* changes the pose
C33_ScrollNeverChangesPose ==
    [][ResolvedByDirection /\ (ev'.kind = "Scroll" => state' = state)]_vars

\* C33, amended: a scroll event resolves its direction horizontal first; when the action
\* is HOME the pose becomes the home pose, and otherwise the pose, the key, button and
\* move records and the continuous gesture are left as they were
C33_ScrollChangesPoseOnlyByHome ==
    [][/\ ResolvedByDirection
       /\ ev'.kind = "Scroll" =>
             IF lastAction'.type = "ACTION_HOME"
             THEN state' = home(Fields).state
             ELSE /\ state' = state
                  /\ <<keyPress', buttonPress', buttonRelease', currentMove', previousMove'>>
                       = <<keyPress, buttonPress, buttonRelease, currentMove, previousMove>>
                  /\ <<continuous', continuousDelta', camera', settings'>>
                       = <<continuous, continuousDelta, camera, settings>>]_vars

\* a scroll to the left and up has resolved to the action bound to the left
C33_Witness ==
    /\ ev.kind = "Scroll"
    /\ ev.arg.delta = <<-1, -1>>
    /\ lastAction.type = "ACTION_ROTATE_LEFT"
    /\ task.type = "TASK_ROTATE"
    /\ getAction(settings.bindings, EVENT_SCROLL, DIR_UP, 0).type = "ACTION_ZOOM_IN"

-----------------------------------------------------------------------------
(* The segment of the scene query *)

\* C34: the scene query of recalculateCenterFromLookVector is made with the segment that
\* starts at the eye and ends at the point eye + look x 1.5 x distance
C34_SegmentAlongLook ==
    [][ev'.kind = "recalculateCenterFromLookVector" =>
         /\ ev'.arg.segment.start = ev'.arg.eye
         /\ ev'.arg.segment.end =
               [i \in 1..3 |-> ev'.arg.eye[i]
                                 + FMul(FMul(ev'.arg.look[i], state.distance), Dec(15, 10))]]_vars

-----------------------------------------------------------------------------
(* InputSpec: equality against ordering *)

CompareSpecs ==
    {InputSpec(t, i, m) : t \in {EVENT_KEY_DOWN, EVENT_MOUSE_DRAG},
                          i \in {KEY_Left, MOUSE_LEFT_BUTTON},
                          m \in {0, MODKEY_NumLock, MODKEY_Control,
                                 MODKEY_Control + MODKEY_NumLock}}

\* a == b, a < b and b < a, evaluated for two specs
CompareCall ==
    \E a \in CompareSpecs, b \in CompareSpecs :
        OwnerCall("compare", Fields,
                  [a |-> a, b |-> b, equal |-> SpecEq(a, b),
                   less |-> SpecLess(a, b), greater |-> SpecLess(b, a)])

NextCompare == CompareCall

SpecCompare == Init /\ [][NextCompare]_vars

\* C35: two InputSpecs that compare equal are not ordered: a == b implies neither a < b
\* nor b < a
C35_EqualIsUnordered ==
    ev.kind = "compare" /\ ev.arg.equal => ~ev.arg.less /\ ~ev.arg.greater

-----------------------------------------------------------------------------
(* Drags with a modifier key held *)

\* the owner makes the plain left drag a continuous pan
ModBind ==
    BindCall({"bindMouse"}, {"ACTION_PAN"}, {MOUSE_LEFT_BUTTON}, {0}, {ZoomDragOptions})

\* a key goes down with Control held
ModKeyPress ==
    LET e == [keyBase |-> KEY_Down, keyModifier |-> MODKEY_Control, time |-> now]
    IN  Gesture("KeyPress", e.time, applyKeyPress(Fields, e), e)

ModKeyRelease ==
    Gesture("KeyRelease", now, applyKeyRelease(Fields), [keyPress |-> keyPress])

ModButtonPress ==
    LET e == Pointer(LeftButton[1], LeftButton[2], <<10, 10>>, now)
    IN  Gesture("ButtonPress", e.time, applyButtonPress(Fields, e), e)

ModButtonRelease ==
    LET e == Pointer(LeftButton[1], LeftButton[2], <<50, 70>>, now + 20000)
    IN  Gesture("ButtonRelease", e.time, applyButtonRelease(Fields, e, FALSE), e)

ModMove ==
    \E m \in {0, MOUSE_LEFT_BUTTON}, pos \in {<<10, 10>>, <<50, 70>>} :
        LET e == Pointer(0, m, pos, now + 20000)
        IN  Gesture("Move", e.time, applyMove(Fields, e), e)

ModFrame ==
    Gesture("Frame", now + 100000, applyFrame(Fields, now + 100000), [time |-> now + 100000])

NextModifier ==
    \/ ModBind
    \/ ModKeyPress
    \/ ModKeyRelease
    \/ ModButtonPress
    \/ ModButtonRelease
    \/ ModMove
    \/ ModFrame

SpecModifier == Init /\ [][NextModifier]_vars

\* C36: a button press or a button release leaves the key-press record, and so the
\* modifier the next drag resolves with, as it was
C36_ButtonsKeepModifier ==
    ev.kind \in {"ButtonPress", "ButtonRelease"} =>
        /\ keyPress = ev.arg.before.keyPress
        /\ HeldModifier(Fields) = HeldModifier(ev.arg.before)

\* C37: on a frame tick that follows a pointer move of a continuous gesture, the motion
\* applied is that of the action that move resolved
C37_FrameAppliesLatestResolved ==
    ev.kind = "Frame" /\ ev.arg.previous.kind = "Move" /\ ev.arg.before.continuous =>
        /\ ev.arg.before.continuousAction = ev.arg.before.lastAction
        /\ ev.calls # <<>> => ev.calls[1][1] = MotionName(ev.arg.before.lastAction.type)

-----------------------------------------------------------------------------
(* The zoom task under both projections *)

\* the tick made exactly one zoom call with vertical delta dy
ZoomedBy(e, dy) ==
    /\ e.kind = "Frame"
    /\ Len(e.calls) = 1
    /\ e.calls[1][1] = "zoom"
    /\ e.calls[1][3] = dy

\* C38: a zoom of a frame tick goes the same way under both projections: a negative
\* vertical delta does not increase the distance under a perspective projection and
\* shrinks the extents of an orthographic one, a positive one does not decrease the
\* distance and enlarges the extents, a zero one changes neither
C38_ZoomSameDirection ==
    [][\A dy \in -(4 * One) .. 4 * One :
          ZoomedBy(ev', dy) /\ camera'.projectionMatrix.kind = camera.projectionMatrix.kind =>
              IF camera.projectionMatrix.kind = "Orthographic"
              THEN /\ dy < 0 => camera'.projectionMatrix.extent < camera.projectionMatrix.extent
                   /\ dy > 0 => camera'.projectionMatrix.extent > camera.projectionMatrix.extent
                   /\ dy = 0 => camera'.projectionMatrix.extent = camera.projectionMatrix.extent
              ELSE /\ dy < 0 => state'.distance <= state.distance
                   /\ dy > 0 => state'.distance >= state.distance
                   /\ dy = 0 => state'.distance = state.distance]_vars

-----------------------------------------------------------------------------
(* The toggle-projection key *)

\* how many key presses so far resolved ACTION_TOGGLE_PROJECTION
Toggles(e) == IF e.kind = "construct" THEN 0 ELSE e.arg.toggles

\* an event of a sequence whose toggles are counted
ToggleEvent(kind, time, c, arg) ==
    LET toggled == kind = "KeyPress" /\ c.lastAction.type = "ACTION_TOGGLE_PROJECTION"
    IN  /\ time <= MaxTime
        /\ nevents < MaxGesture
        /\ nevents' = nevents + 1
        /\ Commit(Noted(kind, c))
        /\ ev' = Event(kind, time, c,
                       [e |-> arg, before |-> Fields, toggled |-> toggled,
                        toggles |-> Toggles(ev) + IF toggled THEN 1 ELSE 0])
        /\ now' = time
        /\ UNCHANGED ncalls

ToggleKeyPress ==
    \E k \in {KEY_p, KEY_Left} :
        LET e == [keyBase |-> k, keyModifier |-> 0, time |-> now]
        IN  ToggleEvent("KeyPress", e.time, applyKeyPress(Fields, e), e)

ToggleKeyRelease ==
    ToggleEvent("KeyRelease", now, applyKeyRelease(Fields), [keyPress |-> keyPress])

ToggleScroll ==
    \E d \in {<<0, -1>>, <<0, 1>>} :
        LET e == [delta |-> d, time |-> now]
        IN  ToggleEvent("Scroll", e.time, applyScroll(Fields, e), e)

ToggleFrame ==
    \E dt \in {40000, 100000} :
        ToggleEvent("Frame", now + dt, applyFrame(Fields, now + dt), [time |-> now + dt])

NextToggle ==
    \/ ToggleKeyPress
    \/ ToggleKeyRelease
    \/ ToggleScroll
    \/ ToggleFrame

SpecToggle == Init /\ [][NextToggle]_vars

\* C39: with a camera that started as an ellipsoid perspective, the projection is the
\* original one after an even number of toggles and an orthographic one after an odd
\* number; a toggle after the first swaps the projection with the saved one; every toggle
\* is reported handled, registers no task and leaves the task as it was
C39_ToggleAlternates ==
    /\ camera.projectionMatrix.kind # "Perspective" =>
          /\ Toggles(ev) % 2 = 0 => camera.projectionMatrix = [kind |-> "EllipsoidPerspective"]
          /\ Toggles(ev) % 2 = 1 => camera.projectionMatrix.kind = "Orthographic"
          /\ Toggles(ev) = 0 <=> camera.savedProjection = None
    /\ ev.kind # "construct" /\ ev.arg.toggled =>
          /\ ev.handled
          /\ ~ev.registered
          /\ task = ev.arg.before.task
          /\ ev.arg.before.camera.savedProjection # None =>
                /\ camera.projectionMatrix = ev.arg.before.camera.savedProjection
                /\ camera.savedProjection = ev.arg.before.camera.projectionMatrix

\* the third toggle, made while a zoom task is pending
C39_Witness ==
    /\ ev.kind = "KeyPress"
    /\ ev.arg.toggled
    /\ Toggles(ev) = 3
    /\ camera.projectionMatrix.kind = "Orthographic"
    /\ camera.savedProjection = [kind |-> "EllipsoidPerspective"]
    /\ task.type = "TASK_ZOOM"

====
